---------------------------- MODULE Spec2Model ----------------------------
(***************************************************************************)
(* A model of the request pipeline of the Refyne Go SDK client:            *)
(* requestWithOptions / executeWithRetry (retry with backoff, the one-shot *)
(* API-version check under the client mutex, error classification and the  *)
(* response cache), together with the pure helpers they call.              *)
(*                                                                         *)
(* A Go string is a sequence of bytes, and a string of the model is one too: *)
(* each of its characters stands for the byte whose value is the            *)
(* character's code point, so text outside ASCII is written as the bytes of *)
(* its UTF-8 encoding.  Strings are read byte by byte where the program     *)
(* reads bytes (strconv.Atoi, strings.Split) and rune by rune where it reads *)
(* runes (strings.ToLower, strings.TrimSpace, range).  An int, an int64 and *)
(* a time.Duration are 64 bits wide and wrap as they do in the program.     *)
(* The clock reads whole seconds, as time.Now().Unix() does.               *)
(***************************************************************************)
EXTENDS Integers, Sequences, FiniteSets, TLC

\* ------------------------------------------------------------ bounds ---
\* Number of logical calls issued against the one client instance.
NumCalls == 2
\* WithMaxRetries values explored: 0..RetryLimit.
RetryLimit == 2
\* Tick stops once the clock reads MaxTime (sleeping still moves it on).
MaxTime == 2
\* The count of compatibility checks stops at MaxEvals.
MaxEvals == 2
\* Capacity handed to NewMemoryCache.
MaxEntries == 1
\* WithTimeout values explored by SpecTimeout: 1..MaxTimeout seconds.
MaxTimeout == 2
\* The network takes 0..MaxTook seconds to answer an attempt in SpecTimeout.
MaxTook == 2
\* NewMemoryCache capacities explored by SpecStore: 1..MaxCapacity.
MaxCapacity == 2
\* Attempt numbers 1..MaxAttempt are given to calculateBackoff.
MaxAttempt == 64
\* A Cache-Control header given to ParseCacheControl has at most MaxTokens
\* comma-separated tokens.
MaxTokens == 2

\* --------------------------------------------------- string helpers ---
Min2(a, b) == IF a < b THEN a ELSE b
Max2(a, b) == IF a > b THEN a ELSE b

CharAt(s, i) == SubSeq(s, i, i)
Digits == {"0", "1", "2", "3", "4", "5", "6", "7", "8", "9"}
IsDigit(ch) == ch \in Digits
DigitVal(ch) ==
    CASE ch = "0" -> 0 [] ch = "1" -> 1 [] ch = "2" -> 2 [] ch = "3" -> 3
      [] ch = "4" -> 4 [] ch = "5" -> 5 [] ch = "6" -> 6 [] ch = "7" -> 7
      [] ch = "8" -> 8 [] ch = "9" -> 9

\* The end (exclusive) of the run of decimal digits of s that starts at i.
RECURSIVE DigitRunEnd(_, _)
DigitRunEnd(s, i) ==
    IF i <= Len(s) /\ IsDigit(CharAt(s, i)) THEN DigitRunEnd(s, i + 1) ELSE i

\* The value of the decimal digits s[i..j-1].
RECURSIVE DigitsVal(_, _, _)
DigitsVal(s, i, j) ==
    IF j <= i THEN 0 ELSE DigitsVal(s, i, j - 1) * 10 + DigitVal(CharAt(s, j - 1))

\* ------------------------------------------------- bytes and runes ---
\* The bytes 1..95 and 97..255, each as the character that stands for it.
\* (No string of the model holds the byte 0 or the byte 96, the grave
\* accent, which the module's text cannot hold.)
BytesLow ==
    "\t\n\f\r !\"#$%&'()*+,-./0123456789:;<=>?@ABCDEFGHIJKLMNOPQRSTUVWXYZ[\\]^_"
BytesHigh ==
    "abcdefghijklmnopqrstuvwxyz{|}~ ¡¢£¤¥¦§¨©ª«¬­®¯°±²³´µ¶·¸¹º»¼½¾¿ÀÁÂÃÄÅÆÇÈÉÊËÌÍÎÏÐÑÒÓÔÕÖ×ØÙÚÛÜÝÞßàáâãäåæçèéêëìíîïðñòóôõö÷øùúûüýþÿ"

\* The character that stands for the byte b.
CharOf(b) == IF b < 96 THEN CharAt(BytesLow, b) ELSE CharAt(BytesHigh, b - 96)

\* The byte a character stands for.
ByteOf ==
    [ch \in {CharOf(b) : b \in (1..255) \ {96}} |->
        CHOOSE b \in (1..255) \ {96} : CharOf(b) = ch]

\* s[i], a byte
ByteAt(s, i) == ByteOf[CharAt(s, i)]

\* utf8.RuneError, U+FFFD
RuneError == 65533

\* utf8.DecodeRuneInString(s[i:]): <<rune, width>>, the rune that the bytes
\* of s from place i on begin with and the number of bytes it takes, and
\* <<RuneError, 1>> when they begin with no well-formed encoding.  The lead
\* byte gives the width and the range the second byte must lie in; the later
\* bytes are continuation bytes (0x80..0xBF).
DecodeRune(s, i) ==
    LET b0 == ByteAt(s, i)
        At(k) == IF i + k <= Len(s) THEN ByteAt(s, i + k) ELSE 0
        width == IF b0 < 128 THEN 1
                 ELSE IF b0 >= 194 /\ b0 <= 223 THEN 2
                 ELSE IF b0 >= 224 /\ b0 <= 239 THEN 3
                 ELSE IF b0 >= 240 /\ b0 <= 244 THEN 4
                 ELSE 0
        lo == IF b0 = 224 THEN 160 ELSE IF b0 = 240 THEN 144 ELSE 128
        hi == IF b0 = 237 THEN 159 ELSE IF b0 = 244 THEN 143 ELSE 191
        Cont(b) == b >= 128 /\ b <= 191
        invalid == <<RuneError, 1>>
    IN  IF width = 1 THEN <<b0, 1>>
        ELSE IF width = 0 THEN invalid
        ELSE IF At(1) < lo \/ At(1) > hi THEN invalid
        ELSE IF width = 2 THEN <<(b0 % 32) * 64 + (At(1) % 64), 2>>
        ELSE IF ~Cont(At(2)) THEN invalid
        ELSE IF width = 3
            THEN <<(b0 % 16) * 4096 + (At(1) % 64) * 64 + (At(2) % 64), 3>>
        ELSE IF ~Cont(At(3)) THEN invalid
        ELSE <<(b0 % 8) * 262144 + (At(1) % 64) * 4096 + (At(2) % 64) * 64
                   + (At(3) % 64), 4>>

\* utf8.DecodeLastRuneInString(s): the rune the bytes of s end with and its
\* width, found by stepping back from the last byte, over at most three
\* bytes, to one that can begin an encoding; <<RuneError, 1>> when the
\* encoding that begins there does not end with s.
DecodeLastRune(s) ==
    LET end == Len(s)
        Start(b) == b < 128 \/ b > 191
        back == {p \in Max2(end - 3, 1)..(end - 1) : Start(ByteAt(s, p))}
        from == IF back # {} THEN CHOOSE p \in back : \A q \in back : q <= p
                ELSE Max2(end - 4, 1)
        d == DecodeRune(s, from)
    IN  IF ByteAt(s, end) < 128 THEN <<ByteAt(s, end), 1>>
        ELSE IF from + d[2] - 1 # end THEN <<RuneError, 1>>
        ELSE d

\* The UTF-8 encoding of a rune, as strings.Builder.WriteRune appends it.
EncodeRune(r) ==
    IF r < 128 THEN CharOf(r)
    ELSE IF r < 2048 THEN CharOf(192 + r \div 64) \o CharOf(128 + (r % 64))
    ELSE IF r < 65536
        THEN CharOf(224 + r \div 4096) \o CharOf(128 + ((r \div 64) % 64))
                 \o CharOf(128 + (r % 64))
    ELSE CharOf(240 + r \div 262144) \o CharOf(128 + ((r \div 4096) % 64))
             \o CharOf(128 + ((r \div 64) % 64)) \o CharOf(128 + (r % 64))

\* --------------------------------------------------------- integers ---
\* A number of up to 27 decimal digits is kept as its three digits in base
\* 10^9, the most significant first: nine decimal digits to each.
LimbDigits == 9

\* math.MaxInt64, 9223372036854775807, the magnitude of math.MinInt64, and 0
MaxInt == <<9, 223372036, 854775807>>
MinIntMagnitude == <<9, 223372036, 854775808>>
ZeroInt == <<0, 0, 0>>

\* a < b for two such numbers, and for any two triples of numbers.
Less3(a, b) ==
    \/ a[1] < b[1]
    \/ a[1] = b[1] /\ a[2] < b[2]
    \/ a[1] = b[1] /\ a[2] = b[2] /\ a[3] < b[3]

\* The first place of s[i..j-1] that holds no "0", and j if there is none.
RECURSIVE SkipZeros(_, _, _)
SkipZeros(s, i, j) ==
    IF i < j /\ CharAt(s, i) = "0" THEN SkipZeros(s, i + 1, j) ELSE i

\* The decimal digits s[i..j-1], at most 27 of them once the leading zeros
\* are dropped, as such a number.
Limbs(s, i, j) ==
    LET k  == SkipZeros(s, i, j)
        lo == Max2(k, j - LimbDigits)
        md == Max2(k, j - 2 * LimbDigits)
        hi == Max2(k, j - 3 * LimbDigits)
    IN  <<DigitsVal(s, hi, md), DigitsVal(s, md, lo), DigitsVal(s, lo, j)>>

\* An int is 64 bits wide (the build is for a 64-bit platform), as an int64
\* and a time.Duration are.  Each is kept as its eight bytes in two's
\* complement, least significant first, so that sums, shifts and products
\* wrap as they do in the program.
Bytes == 8
Byte == 256

\* The low w bytes of the natural number n.
RECURSIVE NatBytes(_, _)
NatBytes(n, w) ==
    IF w = 0 THEN <<>> ELSE <<n % Byte>> \o NatBytes(n \div Byte, w - 1)

\* 0, -1, math.MaxInt64 and math.MinInt64
Zero64 == <<0, 0, 0, 0, 0, 0, 0, 0>>
MinusOne64 == <<255, 255, 255, 255, 255, 255, 255, 255>>
MaxInt64 == <<255, 255, 255, 255, 255, 255, 255, 127>>
MinInt64 == <<0, 0, 0, 0, 0, 0, 0, 128>>

\* x + y on int64, byte by byte with the carry: the carry out of the eighth
\* byte is lost.
Add64(x, y) ==
    LET s1 == x[1] + y[1]
        s2 == x[2] + y[2] + s1 \div Byte
        s3 == x[3] + y[3] + s2 \div Byte
        s4 == x[4] + y[4] + s3 \div Byte
        s5 == x[5] + y[5] + s4 \div Byte
        s6 == x[6] + y[6] + s5 \div Byte
        s7 == x[7] + y[7] + s6 \div Byte
        s8 == x[8] + y[8] + s7 \div Byte
    IN  <<s1 % Byte, s2 % Byte, s3 % Byte, s4 % Byte,
          s5 % Byte, s6 % Byte, s7 % Byte, s8 % Byte>>

\* The part of column k of the long multiplication x * y from digit i on.
RECURSIVE Column(_, _, _, _)
Column(x, y, k, i) ==
    IF i > k THEN 0 ELSE x[i] * y[k + 1 - i] + Column(x, y, k, i + 1)

\* x * y on int64, from byte k on with the carry into it: the bytes of the
\* product beyond the eighth are lost.
RECURSIVE MulFrom(_, _, _, _)
MulFrom(x, y, k, carry) ==
    IF k > Bytes THEN <<>>
    ELSE <<(Column(x, y, k, 1) + carry) % Byte>>
            \o MulFrom(x, y, k + 1, (Column(x, y, k, 1) + carry) \div Byte)

Mul64(x, y) == MulFrom(x, y, 1, 0)

\* -x on int64
Neg64(x) == Mul64(x, MinusOne64)

\* The int64 of a number of the model.
Int64(n) ==
    IF n >= 0 /\ n < Byte THEN <<n, 0, 0, 0, 0, 0, 0, 0>>
    ELSE IF n >= 0 THEN NatBytes(n, Bytes)
    ELSE Neg64(NatBytes(0 - n, Bytes))

\* 1 << k as an int64: bit k alone, and 0 once k is 64 or more.
RECURSIVE BitFrom(_, _)
BitFrom(k, i) ==
    IF i > Bytes THEN <<>>
    ELSE <<IF k \div 8 = i - 1 THEN 2 ^ (k % 8) ELSE 0>> \o BitFrom(k, i + 1)

\* x << k on an int64, which is x * (1 << k) in wrapping arithmetic.
Shl64(x, k) == Mul64(x, BitFrom(k, 1))

Negative64(x) == x[Bytes] >= Byte \div 2

\* x < y on int64: by the sign when the signs differ, and otherwise by the
\* most significant byte in which the two differ.
Less64(x, y) ==
    IF Negative64(x) # Negative64(y) THEN Negative64(x)
    ELSE IF x[8] # y[8] THEN x[8] < y[8]
    ELSE IF x[7] # y[7] THEN x[7] < y[7]
    ELSE IF x[6] # y[6] THEN x[6] < y[6]
    ELSE IF x[5] # y[5] THEN x[5] < y[5]
    ELSE IF x[4] # y[4] THEN x[4] < y[4]
    ELSE IF x[3] # y[3] THEN x[3] < y[3]
    ELSE IF x[2] # y[2] THEN x[2] < y[2]
    ELSE x[1] < y[1]

Min64(x, y) == IF Less64(y, x) THEN y ELSE x

\* The int64 of a number below 2^63 given by its digits in base 10^9.
LimbBase == Int64(1000000000)
FromLimbs(v) ==
    Add64(Mul64(Add64(Mul64(Int64(v[1]), LimbBase), Int64(v[2])), LimbBase), Int64(v[3]))

\* strconv.Atoi: an optional sign followed by one or more decimal digits and
\* nothing else, or its syntax error; a number out of the range of int is
\* its range error.  ParseUint reads the digits from the left and returns
\* its range error at the digit with which the number reaches 2^64, before
\* it looks at what follows, so a run of digits that overflows uint64 is the
\* range error whatever comes after it.  Atoi(s) = [ok, val]: ok is
\* err == nil, and val the int returned, which for the range error is the
\* nearest int and for the syntax error 0.
Atoi(s) ==
    LET signed == Len(s) >= 1 /\ CharAt(s, 1) \in {"+", "-"}
        neg    == signed /\ CharAt(s, 1) = "-"
        from   == IF signed THEN 2 ELSE 1
        to     == DigitRunEnd(s, from)
        good   == to > from /\ to = Len(s) + 1
        v      == Limbs(s, from, to)
        maxUint64 == <<18, 446744073, 709551615>>
        overflows == \/ to - SkipZeros(s, from, to) > 2 * LimbDigits + 2
                     \/ Less3(maxUint64, v)
        within == /\ to - SkipZeros(s, from, to) <= 2 * LimbDigits + 1
                  /\ ~Less3(IF neg THEN MinIntMagnitude ELSE MaxInt, v)
        clamped == [ok |-> FALSE, val |-> IF neg THEN MinInt64 ELSE MaxInt64]
    IN  IF overflows THEN clamped
        ELSE IF ~good THEN [ok |-> FALSE, val |-> Zero64]
        ELSE IF ~within THEN clamped
        ELSE [ok |-> TRUE, val |-> IF neg THEN Neg64(FromLimbs(v)) ELSE FromLimbs(v)]

\* ------------------------------------------------------- version.go ---
\* strconv.Atoi of the decimal digits s[i..j-1] with its error dropped: the
\* number, and math.MaxInt64 for a number that is out of the range of int.
\* An int of ParseVersion is kept as its digits in base 10^9.
AtoiDigits(s, i, j) ==
    LET k == SkipZeros(s, i, j)
        v == Limbs(s, i, j)
    IN  IF j - k > 2 * LimbDigits + 1 THEN MaxInt
        ELSE IF Less3(MaxInt, v) THEN MaxInt
        ELSE v

\* versionRegex ^(\d+)\.(\d+)\.(\d+)(?:-(.+))?$ applied by ParseVersion:
\* <<major, minor, patch, prerelease>>, and 0, 0, 0, "" on no match.
ParseVersion(version) ==
    LET e1 == DigitRunEnd(version, 1)
        e2 == DigitRunEnd(version, e1 + 1)
        e3 == DigitRunEnd(version, e2 + 1)
        n  == Len(version)
        core == /\ e1 > 1
                /\ e1 <= n /\ CharAt(version, e1) = "."
                /\ e2 > e1 + 1
                /\ e2 <= n /\ CharAt(version, e2) = "."
                /\ e3 > e2 + 1
        tail == \/ e3 = n + 1
                \/ /\ e3 < n /\ CharAt(version, e3) = "-"
                   /\ \A i \in (e3 + 1)..n : CharAt(version, i) # "\n"
    IN  IF core /\ tail
        THEN <<AtoiDigits(version, 1, e1),
               AtoiDigits(version, e1 + 1, e2),
               AtoiDigits(version, e2 + 1, e3),
               IF e3 = n + 1 THEN "" ELSE SubSeq(version, e3 + 1, n)>>
        ELSE <<ZeroInt, ZeroInt, ZeroInt, "">>

\* CompareVersions: -1, 0 or 1 by major, then minor, then patch.
CompareVersions(a, b) ==
    LET pa == ParseVersion(a)
        pb == ParseVersion(b)
    IN  IF pa[1] # pb[1] THEN (IF Less3(pa[1], pb[1]) THEN -1 ELSE 1)
        ELSE IF pa[2] # pb[2] THEN (IF Less3(pa[2], pb[2]) THEN -1 ELSE 1)
        ELSE IF pa[3] # pb[3] THEN (IF Less3(pa[3], pb[3]) THEN -1 ELSE 1)
        ELSE 0

\* The version constants of the package.
MinAPIVersion == "0.0.0"
MaxKnownAPIVersion == "0.0.0"

\* CheckAPIVersionCompatibility rejecting the minimum version itself.
CheckAPIVersionCompatibilityStrict(apiVersion) ==
    IF CompareVersions(apiVersion, MinAPIVersion) <= 0
    THEN [err |-> TRUE, warn |-> FALSE]
    ELSE [err |-> FALSE,
          warn |-> Less3(ParseVersion(MaxKnownAPIVersion)[1],
                         ParseVersion(apiVersion)[1])]

\* CheckAPIVersionCompatibility: [err] is TRUE for
\* UnsupportedAPIVersionError, [warn] is TRUE when logger.Warn is called.
\* (No version string compares below 0.0.0, the MinAPIVersion of the
\* package, so the error is returned for none.)
CheckAPIVersionCompatibility(apiVersion) ==
    IF CompareVersions(apiVersion, MinAPIVersion) < 0
    THEN [err |-> TRUE, warn |-> FALSE]
    ELSE [err |-> FALSE,
          warn |-> Less3(ParseVersion(MaxKnownAPIVersion)[1],
                         ParseVersion(apiVersion)[1])]

\* ------------------------------------------------ cache (part_003) ---
\* unicode.ToUpper and unicode.ToLower map a rune by the simple case
\* mappings of the Unicode Character Database, which package unicode holds
\* in CaseRanges.  Each row <<lo, hi, step, delta>> stands for the runes lo,
\* lo + step, ..., hi, the other case of which lies delta further on.  No
\* rune is in two rows of a table; a rune in none has no other case.
\* The rows with a delta to the upper case:
UpperCaseRanges ==
    <<<<97, 122, 1, -32>>, <<181, 181, 1, 743>>, <<224, 246, 1, -32>>,
      <<248, 254, 1, -32>>, <<255, 255, 1, 121>>, <<257, 303, 2, -1>>,
      <<305, 305, 1, -232>>, <<307, 311, 2, -1>>, <<314, 328, 2, -1>>,
      <<331, 375, 2, -1>>, <<378, 382, 2, -1>>, <<383, 383, 1, -300>>,
      <<384, 384, 1, 195>>, <<387, 389, 2, -1>>, <<392, 392, 1, -1>>,
      <<396, 396, 1, -1>>, <<402, 402, 1, -1>>, <<405, 405, 1, 97>>,
      <<409, 409, 1, -1>>, <<410, 410, 1, 163>>, <<414, 414, 1, 130>>,
      <<417, 421, 2, -1>>, <<424, 424, 1, -1>>, <<429, 429, 1, -1>>,
      <<432, 432, 1, -1>>, <<436, 438, 2, -1>>, <<441, 441, 1, -1>>,
      <<445, 445, 1, -1>>, <<447, 447, 1, 56>>, <<453, 453, 1, -1>>,
      <<454, 454, 1, -2>>, <<456, 456, 1, -1>>, <<457, 457, 1, -2>>,
      <<459, 459, 1, -1>>, <<460, 460, 1, -2>>, <<462, 476, 2, -1>>,
      <<477, 477, 1, -79>>, <<479, 495, 2, -1>>, <<498, 498, 1, -1>>,
      <<499, 499, 1, -2>>, <<501, 501, 1, -1>>, <<505, 543, 2, -1>>,
      <<547, 563, 2, -1>>, <<572, 572, 1, -1>>, <<575, 576, 1, 10815>>,
      <<578, 578, 1, -1>>, <<583, 591, 2, -1>>, <<592, 592, 1, 10783>>,
      <<593, 593, 1, 10780>>, <<594, 594, 1, 10782>>, <<595, 595, 1, -210>>,
      <<596, 596, 1, -206>>, <<598, 599, 1, -205>>, <<601, 601, 1, -202>>,
      <<603, 603, 1, -203>>, <<604, 604, 1, 42319>>, <<608, 608, 1, -205>>,
      <<609, 609, 1, 42315>>, <<611, 611, 1, -207>>, <<613, 613, 1, 42280>>,
      <<614, 614, 1, 42308>>, <<616, 616, 1, -209>>, <<617, 617, 1, -211>>,
      <<618, 618, 1, 42308>>, <<619, 619, 1, 10743>>, <<620, 620, 1, 42305>>,
      <<623, 623, 1, -211>>, <<625, 625, 1, 10749>>, <<626, 626, 1, -213>>,
      <<629, 629, 1, -214>>, <<637, 637, 1, 10727>>, <<640, 640, 1, -218>>,
      <<642, 642, 1, 42307>>, <<643, 643, 1, -218>>, <<647, 647, 1, 42282>>,
      <<648, 648, 1, -218>>, <<649, 649, 1, -69>>, <<650, 651, 1, -217>>,
      <<652, 652, 1, -71>>, <<658, 658, 1, -219>>, <<669, 669, 1, 42261>>,
      <<670, 670, 1, 42258>>, <<837, 837, 1, 84>>, <<881, 883, 2, -1>>,
      <<887, 887, 1, -1>>, <<891, 893, 1, 130>>, <<940, 940, 1, -38>>,
      <<941, 943, 1, -37>>, <<945, 961, 1, -32>>, <<962, 962, 1, -31>>,
      <<963, 971, 1, -32>>, <<972, 972, 1, -64>>, <<973, 974, 1, -63>>,
      <<976, 976, 1, -62>>, <<977, 977, 1, -57>>, <<981, 981, 1, -47>>,
      <<982, 982, 1, -54>>, <<983, 983, 1, -8>>, <<985, 1007, 2, -1>>,
      <<1008, 1008, 1, -86>>, <<1009, 1009, 1, -80>>, <<1010, 1010, 1, 7>>,
      <<1011, 1011, 1, -116>>, <<1013, 1013, 1, -96>>, <<1016, 1016, 1, -1>>,
      <<1019, 1019, 1, -1>>, <<1072, 1103, 1, -32>>, <<1104, 1119, 1, -80>>,
      <<1121, 1153, 2, -1>>, <<1163, 1215, 2, -1>>, <<1218, 1230, 2, -1>>,
      <<1231, 1231, 1, -15>>, <<1233, 1327, 2, -1>>, <<1377, 1414, 1, -48>>,
      <<4304, 4346, 1, 3008>>, <<4349, 4351, 1, 3008>>,
      <<5112, 5117, 1, -8>>, <<7296, 7296, 1, -6254>>,
      <<7297, 7297, 1, -6253>>, <<7298, 7298, 1, -6244>>,
      <<7299, 7300, 1, -6242>>, <<7301, 7301, 1, -6243>>,
      <<7302, 7302, 1, -6236>>, <<7303, 7303, 1, -6181>>,
      <<7304, 7304, 1, 35266>>, <<7545, 7545, 1, 35332>>,
      <<7549, 7549, 1, 3814>>, <<7566, 7566, 1, 35384>>,
      <<7681, 7829, 2, -1>>, <<7835, 7835, 1, -59>>, <<7841, 7935, 2, -1>>,
      <<7936, 7943, 1, 8>>, <<7952, 7957, 1, 8>>, <<7968, 7975, 1, 8>>,
      <<7984, 7991, 1, 8>>, <<8000, 8005, 1, 8>>, <<8017, 8023, 2, 8>>,
      <<8032, 8039, 1, 8>>, <<8048, 8049, 1, 74>>, <<8050, 8053, 1, 86>>,
      <<8054, 8055, 1, 100>>, <<8056, 8057, 1, 128>>, <<8058, 8059, 1, 112>>,
      <<8060, 8061, 1, 126>>, <<8064, 8071, 1, 8>>, <<8080, 8087, 1, 8>>,
      <<8096, 8103, 1, 8>>, <<8112, 8113, 1, 8>>, <<8115, 8115, 1, 9>>,
      <<8126, 8126, 1, -7205>>, <<8131, 8131, 1, 9>>, <<8144, 8145, 1, 8>>,
      <<8160, 8161, 1, 8>>, <<8165, 8165, 1, 7>>, <<8179, 8179, 1, 9>>,
      <<8526, 8526, 1, -28>>, <<8560, 8575, 1, -16>>, <<8580, 8580, 1, -1>>,
      <<9424, 9449, 1, -26>>, <<11312, 11359, 1, -48>>,
      <<11361, 11361, 1, -1>>, <<11365, 11365, 1, -10795>>,
      <<11366, 11366, 1, -10792>>, <<11368, 11372, 2, -1>>,
      <<11379, 11379, 1, -1>>, <<11382, 11382, 1, -1>>,
      <<11393, 11491, 2, -1>>, <<11500, 11502, 2, -1>>,
      <<11507, 11507, 1, -1>>, <<11520, 11557, 1, -7264>>,
      <<11559, 11559, 1, -7264>>, <<11565, 11565, 1, -7264>>,
      <<42561, 42605, 2, -1>>, <<42625, 42651, 2, -1>>,
      <<42787, 42799, 2, -1>>, <<42803, 42863, 2, -1>>,
      <<42874, 42876, 2, -1>>, <<42879, 42887, 2, -1>>,
      <<42892, 42892, 1, -1>>, <<42897, 42899, 2, -1>>,
      <<42900, 42900, 1, 48>>, <<42903, 42921, 2, -1>>,
      <<42933, 42947, 2, -1>>, <<42952, 42954, 2, -1>>,
      <<42961, 42961, 1, -1>>, <<42967, 42969, 2, -1>>,
      <<42998, 42998, 1, -1>>, <<43859, 43859, 1, -928>>,
      <<43888, 43967, 1, -38864>>, <<65345, 65370, 1, -32>>,
      <<66600, 66639, 1, -40>>, <<66776, 66811, 1, -40>>,
      <<66967, 67003, 2, -39>>, <<66968, 66976, 2, -39>>,
      <<66980, 66992, 2, -39>>, <<66996, 67000, 2, -39>>,
      <<67004, 67004, 1, -39>>, <<68800, 68850, 1, -64>>,
      <<71872, 71903, 1, -32>>, <<93792, 93823, 1, -32>>,
      <<125218, 125251, 1, -34>> >>

\* and the rows with a delta to the lower case:
LowerCaseRanges ==
    <<<<65, 90, 1, 32>>, <<192, 214, 1, 32>>, <<216, 222, 1, 32>>,
      <<256, 302, 2, 1>>, <<304, 304, 1, -199>>, <<306, 310, 2, 1>>,
      <<313, 327, 2, 1>>, <<330, 374, 2, 1>>, <<376, 376, 1, -121>>,
      <<377, 381, 2, 1>>, <<385, 385, 1, 210>>, <<386, 388, 2, 1>>,
      <<390, 390, 1, 206>>, <<391, 391, 1, 1>>, <<393, 394, 1, 205>>,
      <<395, 395, 1, 1>>, <<398, 398, 1, 79>>, <<399, 399, 1, 202>>,
      <<400, 400, 1, 203>>, <<401, 401, 1, 1>>, <<403, 403, 1, 205>>,
      <<404, 404, 1, 207>>, <<406, 406, 1, 211>>, <<407, 407, 1, 209>>,
      <<408, 408, 1, 1>>, <<412, 412, 1, 211>>, <<413, 413, 1, 213>>,
      <<415, 415, 1, 214>>, <<416, 420, 2, 1>>, <<422, 422, 1, 218>>,
      <<423, 423, 1, 1>>, <<425, 425, 1, 218>>, <<428, 428, 1, 1>>,
      <<430, 430, 1, 218>>, <<431, 431, 1, 1>>, <<433, 434, 1, 217>>,
      <<435, 437, 2, 1>>, <<439, 439, 1, 219>>, <<440, 440, 1, 1>>,
      <<444, 444, 1, 1>>, <<452, 452, 1, 2>>, <<453, 453, 1, 1>>,
      <<455, 455, 1, 2>>, <<456, 456, 1, 1>>, <<458, 458, 1, 2>>,
      <<459, 475, 2, 1>>, <<478, 494, 2, 1>>, <<497, 497, 1, 2>>,
      <<498, 500, 2, 1>>, <<502, 502, 1, -97>>, <<503, 503, 1, -56>>,
      <<504, 542, 2, 1>>, <<544, 544, 1, -130>>, <<546, 562, 2, 1>>,
      <<570, 570, 1, 10795>>, <<571, 571, 1, 1>>, <<573, 573, 1, -163>>,
      <<574, 574, 1, 10792>>, <<577, 577, 1, 1>>, <<579, 579, 1, -195>>,
      <<580, 580, 1, 69>>, <<581, 581, 1, 71>>, <<582, 590, 2, 1>>,
      <<880, 882, 2, 1>>, <<886, 886, 1, 1>>, <<895, 895, 1, 116>>,
      <<902, 902, 1, 38>>, <<904, 906, 1, 37>>, <<908, 908, 1, 64>>,
      <<910, 911, 1, 63>>, <<913, 929, 1, 32>>, <<931, 939, 1, 32>>,
      <<975, 975, 1, 8>>, <<984, 1006, 2, 1>>, <<1012, 1012, 1, -60>>,
      <<1015, 1015, 1, 1>>, <<1017, 1017, 1, -7>>, <<1018, 1018, 1, 1>>,
      <<1021, 1023, 1, -130>>, <<1024, 1039, 1, 80>>, <<1040, 1071, 1, 32>>,
      <<1120, 1152, 2, 1>>, <<1162, 1214, 2, 1>>, <<1216, 1216, 1, 15>>,
      <<1217, 1229, 2, 1>>, <<1232, 1326, 2, 1>>, <<1329, 1366, 1, 48>>,
      <<4256, 4293, 1, 7264>>, <<4295, 4295, 1, 7264>>,
      <<4301, 4301, 1, 7264>>, <<5024, 5103, 1, 38864>>,
      <<5104, 5109, 1, 8>>, <<7312, 7354, 1, -3008>>,
      <<7357, 7359, 1, -3008>>, <<7680, 7828, 2, 1>>,
      <<7838, 7838, 1, -7615>>, <<7840, 7934, 2, 1>>, <<7944, 7951, 1, -8>>,
      <<7960, 7965, 1, -8>>, <<7976, 7983, 1, -8>>, <<7992, 7999, 1, -8>>,
      <<8008, 8013, 1, -8>>, <<8025, 8031, 2, -8>>, <<8040, 8047, 1, -8>>,
      <<8072, 8079, 1, -8>>, <<8088, 8095, 1, -8>>, <<8104, 8111, 1, -8>>,
      <<8120, 8121, 1, -8>>, <<8122, 8123, 1, -74>>, <<8124, 8124, 1, -9>>,
      <<8136, 8139, 1, -86>>, <<8140, 8140, 1, -9>>, <<8152, 8153, 1, -8>>,
      <<8154, 8155, 1, -100>>, <<8168, 8169, 1, -8>>,
      <<8170, 8171, 1, -112>>, <<8172, 8172, 1, -7>>,
      <<8184, 8185, 1, -128>>, <<8186, 8187, 1, -126>>,
      <<8188, 8188, 1, -9>>, <<8486, 8486, 1, -7517>>,
      <<8490, 8490, 1, -8383>>, <<8491, 8491, 1, -8262>>,
      <<8498, 8498, 1, 28>>, <<8544, 8559, 1, 16>>, <<8579, 8579, 1, 1>>,
      <<9398, 9423, 1, 26>>, <<11264, 11311, 1, 48>>, <<11360, 11360, 1, 1>>,
      <<11362, 11362, 1, -10743>>, <<11363, 11363, 1, -3814>>,
      <<11364, 11364, 1, -10727>>, <<11367, 11371, 2, 1>>,
      <<11373, 11373, 1, -10780>>, <<11374, 11374, 1, -10749>>,
      <<11375, 11375, 1, -10783>>, <<11376, 11376, 1, -10782>>,
      <<11378, 11378, 1, 1>>, <<11381, 11381, 1, 1>>,
      <<11390, 11391, 1, -10815>>, <<11392, 11490, 2, 1>>,
      <<11499, 11501, 2, 1>>, <<11506, 11506, 1, 1>>, <<42560, 42604, 2, 1>>,
      <<42624, 42650, 2, 1>>, <<42786, 42798, 2, 1>>, <<42802, 42862, 2, 1>>,
      <<42873, 42875, 2, 1>>, <<42877, 42877, 1, -35332>>,
      <<42878, 42886, 2, 1>>, <<42891, 42891, 1, 1>>,
      <<42893, 42893, 1, -42280>>, <<42896, 42898, 2, 1>>,
      <<42902, 42920, 2, 1>>, <<42922, 42922, 1, -42308>>,
      <<42923, 42923, 1, -42319>>, <<42924, 42924, 1, -42315>>,
      <<42925, 42925, 1, -42305>>, <<42926, 42926, 1, -42308>>,
      <<42928, 42928, 1, -42258>>, <<42929, 42929, 1, -42282>>,
      <<42930, 42930, 1, -42261>>, <<42931, 42931, 1, 928>>,
      <<42932, 42946, 2, 1>>, <<42948, 42948, 1, -48>>,
      <<42949, 42949, 1, -42307>>, <<42950, 42950, 1, -35384>>,
      <<42951, 42953, 2, 1>>, <<42960, 42960, 1, 1>>, <<42966, 42968, 2, 1>>,
      <<42997, 42997, 1, 1>>, <<65313, 65338, 1, 32>>,
      <<66560, 66599, 1, 40>>, <<66736, 66771, 1, 40>>,
      <<66928, 66964, 2, 39>>, <<66929, 66937, 2, 39>>,
      <<66941, 66953, 2, 39>>, <<66957, 66961, 2, 39>>,
      <<66965, 66965, 1, 39>>, <<68736, 68786, 1, 64>>,
      <<71840, 71871, 1, 32>>, <<93760, 93791, 1, 32>>,
      <<125184, 125217, 1, 34>> >>

\* The delta of the row of caseRange that holds r, and 0 when none does.
CaseDelta(caseRange, r) ==
    LET rows == {i \in DOMAIN caseRange :
                    /\ caseRange[i][1] <= r
                    /\ r <= caseRange[i][2]
                    /\ (r - caseRange[i][1]) % caseRange[i][3] = 0}
    IN  IF rows = {} THEN 0 ELSE caseRange[CHOOSE i \in rows : TRUE][4]

\* unicode.ToLower and unicode.ToUpper: the letters of ASCII directly, any
\* other rune by the table.
ToLowerRune(r) ==
    IF r < 128 THEN (IF r >= 65 /\ r <= 90 THEN r + 32 ELSE r)
    ELSE r + CaseDelta(LowerCaseRanges, r)

ToUpperRune(r) ==
    IF r < 128 THEN (IF r >= 97 /\ r <= 122 THEN r - 32 ELSE r)
    ELSE r + CaseDelta(UpperCaseRanges, r)

\* strings.ToLower and strings.ToUpper of the bytes of s from place i on,
\* rune by rune: each rune is replaced by the encoding of its other case,
\* and a byte that begins no well-formed encoding by that of U+FFFD.
RECURSIVE ToLowerFrom(_, _)
ToLowerFrom(s, i) ==
    IF i > Len(s) THEN ""
    ELSE LET d == DecodeRune(s, i)
         IN  EncodeRune(ToLowerRune(d[1])) \o ToLowerFrom(s, i + d[2])

RECURSIVE ToUpperFrom(_, _)
ToUpperFrom(s, i) ==
    IF i > Len(s) THEN ""
    ELSE LET d == DecodeRune(s, i)
         IN  EncodeRune(ToUpperRune(d[1])) \o ToUpperFrom(s, i + d[2])

ToLower(s) == ToLowerFrom(s, 1)
ToUpper(s) == ToUpperFrom(s, 1)

\* unicode.IsSpace: the tab, the line feed, the vertical tab, the form feed,
\* the carriage return, the space, U+0085, U+00A0, and the runes beyond
\* U+00FF that have the White_Space property.
IsSpace(r) ==
    \/ r \in {9, 10, 11, 12, 13, 32, 133, 160, 5760, 8232, 8233, 8239, 8287, 12288}
    \/ r >= 8192 /\ r <= 8202

\* The place of the first rune of s, from place i on, that is no white
\* space, and Len(s) + 1 when there is none.
RECURSIVE TrimLeftFrom(_, _)
TrimLeftFrom(s, i) ==
    IF i > Len(s) THEN i
    ELSE LET d == DecodeRune(s, i)
         IN  IF IsSpace(d[1]) THEN TrimLeftFrom(s, i + d[2]) ELSE i

\* s without the white space it ends with.
RECURSIVE TrimRight(_)
TrimRight(s) ==
    IF Len(s) = 0 THEN s
    ELSE LET d == DecodeLastRune(s)
         IN  IF IsSpace(d[1]) THEN TrimRight(SubSeq(s, 1, Len(s) - d[2])) ELSE s

\* strings.TrimSpace
TrimSpace(s) == TrimRight(SubSeq(s, TrimLeftFrom(s, 1), Len(s)))

\* strings.Split(s, ","): the pieces between commas, in order (one piece,
\* possibly empty, when there is no comma).
RECURSIVE SplitFrom(_, _, _)
SplitFrom(s, start, i) ==
    IF i > Len(s) THEN <<SubSeq(s, start, Len(s))>>
    ELSE IF CharAt(s, i) = "," THEN <<SubSeq(s, start, i - 1)>> \o SplitFrom(s, i + 1, i + 1)
    ELSE SplitFrom(s, start, i + 1)

Split(s) == SplitFrom(s, 1, 1)

HasPrefix(s, prefix) == Len(s) >= Len(prefix) /\ SubSeq(s, 1, Len(prefix)) = prefix

\* An optional int (*int in the source): set = FALSE is nil, and val is the
\* int pointed to.
NoInt == [set |-> FALSE, val |-> Zero64]
SomeInt(v) == [set |-> TRUE, val |-> v]

NoDirectives ==
    [noStore |-> FALSE, noCache |-> FALSE, private |-> FALSE,
     maxAge |-> NoInt, staleWhileRevalidate |-> NoInt]

\* The switch of ParseCacheControl's loop body, applied to one trimmed,
\* lower-cased token.
ApplyDirective(d, part) ==
    IF part = "no-store" THEN [d EXCEPT !.noStore = TRUE]
    ELSE IF part = "no-cache" THEN [d EXCEPT !.noCache = TRUE]
    ELSE IF part = "private" THEN [d EXCEPT !.private = TRUE]
    ELSE IF HasPrefix(part, "max-age=")
        THEN LET a == Atoi(SubSeq(part, 9, Len(part)))
             IN  IF a.ok THEN [d EXCEPT !.maxAge = SomeInt(a.val)] ELSE d
    ELSE IF HasPrefix(part, "stale-while-revalidate=")
        THEN LET a == Atoi(SubSeq(part, 24, Len(part)))
             IN  IF a.ok THEN [d EXCEPT !.staleWhileRevalidate = SomeInt(a.val)] ELSE d
    ELSE d

RECURSIVE ApplyDirectives(_, _)
ApplyDirectives(d, parts) ==
    IF parts = <<>> THEN d
    ELSE ApplyDirectives(ApplyDirective(d, TrimSpace(Head(parts))), Tail(parts))

ParseCacheControl(header) ==
    IF header = "" THEN NoDirectives
    ELSE ApplyDirectives(NoDirectives, Split(ToLower(header)))

\* The Cache-Control headers the model's server sends.
ServerCacheControls ==
    {"", "private", "no-cache", "no-store", "max-age=1", "no-store, max-age=1",
     "private, max-age=1", "no-cache, max-age=1", "no-cache, private, max-age=1",
     "no-store, private, max-age=1", "max-age=0, stale-while-revalidate=2",
     "max-age=0, stale-while-revalidate=9223372036854775807"}

\* ParseCacheControl of a response's header, read off a table for the
\* headers of the model's server.
DirectivesOf == [header \in ServerCacheControls |-> ParseCacheControl(header)]
ParseHeader(header) ==
    IF header \in ServerCacheControls THEN DirectivesOf[header]
    ELSE ParseCacheControl(header)

\* A *CacheEntry: [ok] is FALSE for nil, which has no fields; expiresAt is
\* an int64.  The entry is an object that several goroutines may hold
\* pointers to: id tells the entries apart that are held under one key, 1
\* being the one made or stored last, so that two pointers are to one object
\* when key and id agree.  ref: the Value is a pointer to the result object
\* of the call that made the entry.
NoEntry == [ok |-> FALSE]

\* CreateCacheEntry without the max-age test: a response with no max-age
\* gets an entry that expires at once.
CreateCacheEntryNoMaxAgeTest(value, cacheControlHeader, t) ==
    LET Entry(cc) ==
            IF cc.noStore THEN NoEntry
            ELSE [ok |-> TRUE, value |-> value,
                  expiresAt |-> Add64(Int64(t), cc.maxAge.val),
                  cacheControl |-> cc, id |-> 1, ref |-> FALSE]
    IN  Entry(ParseHeader(cacheControlHeader))

\* CreateCacheEntry that builds nothing for a private or no-cache response.
CreateCacheEntryPrivate(value, cacheControlHeader, t) ==
    LET Entry(cc) ==
            IF cc.noStore \/ cc.private \/ cc.noCache THEN NoEntry
            ELSE IF ~cc.maxAge.set THEN NoEntry
            ELSE [ok |-> TRUE, value |-> value,
                  expiresAt |-> Add64(Int64(t), cc.maxAge.val), cacheControl |-> cc,
                  id |-> 1, ref |-> FALSE]
    IN  Entry(ParseHeader(cacheControlHeader))

\* CreateCacheEntry(value, cacheControlHeader) called at time.Now().Unix() = t;
\* the sum of the time and max-age is taken on int64.
CreateCacheEntry(value, cacheControlHeader, t) ==
    LET Entry(cc) ==
            IF cc.noStore THEN NoEntry
            ELSE IF ~cc.maxAge.set THEN NoEntry
            ELSE [ok |-> TRUE, value |-> value,
                  expiresAt |-> Add64(Int64(t), cc.maxAge.val), cacheControl |-> cc,
                  id |-> 1, ref |-> FALSE]
    IN  Entry(ParseHeader(cacheControlHeader))

\* The MemoryCache is the pair [store, order]: store maps the keys held to
\* their entries, order lists keys in insertion order.
EmptyCache == [store |-> <<>>, order |-> <<>>]

\* A Delete that removes the key from the map and leaves the order alone.
CacheDeleteMapOnly(mc, key) ==
    [store |-> [k \in (DOMAIN mc.store) \ {key} |-> mc.store[k]], order |-> mc.order]

\* MemoryCache.Delete
CacheDelete(mc, key) ==
    [store |-> [k \in (DOMAIN mc.store) \ {key} |-> mc.store[k]],
     order |-> IF \E i \in 1..Len(mc.order) : mc.order[i] = key
               THEN LET i == CHOOSE j \in 1..Len(mc.order) :
                                 /\ mc.order[j] = key
                                 /\ \A h \in 1..(j - 1) : mc.order[h] # key
                    IN  SubSeq(mc.order, 1, i - 1) \o SubSeq(mc.order, i + 1, Len(mc.order))
               ELSE mc.order]

\* entry.ExpiresAt < now
Expired(entry, t) == Less64(entry.expiresAt, Int64(t))

\* The stale-while-revalidate test of Get: the allowance is there and
\* now < entry.ExpiresAt + int64(allowance), the sum taken on int64.
WithinStale(entry, t) ==
    /\ entry.cacheControl.staleWhileRevalidate.set
    /\ Less64(Int64(t), Add64(entry.expiresAt, entry.cacheControl.staleWhileRevalidate.val))

\* MemoryCache.Get at time t, run with no other call of the MemoryCache
\* between its read and its Delete: [found, entry, cache], cache being the
\* MemoryCache after the lookup (an expired entry is deleted).
CacheGet(mc, key, t) ==
    IF key \notin DOMAIN mc.store
    THEN [found |-> FALSE, entry |-> NoEntry, cache |-> mc]
    ELSE LET entry == mc.store[key]
         IN  IF Expired(entry, t)
             THEN IF WithinStale(entry, t)
                  THEN [found |-> TRUE, entry |-> entry, cache |-> mc]
                  ELSE [found |-> FALSE, entry |-> NoEntry, cache |-> CacheDelete(mc, key)]
             ELSE [found |-> TRUE, entry |-> entry, cache |-> mc]

\* An eviction loop that drops the newest key instead of the oldest.
RECURSIVE EvictNewestWhileFull(_, _)
EvictNewestWhileFull(mc, maxEntries) ==
    IF Cardinality(DOMAIN mc.store) >= maxEntries /\ Len(mc.order) > 0
    THEN EvictNewestWhileFull(
            [store |-> [k \in (DOMAIN mc.store) \ {mc.order[Len(mc.order)]} |-> mc.store[k]],
             order |-> SubSeq(mc.order, 1, Len(mc.order) - 1)], maxEntries)
    ELSE mc

\* An eviction loop that runs only when the store is over its capacity.
RECURSIVE EvictWhileOverFull(_, _)
EvictWhileOverFull(mc, maxEntries) ==
    IF Cardinality(DOMAIN mc.store) > maxEntries /\ Len(mc.order) > 0
    THEN EvictWhileOverFull(
            [store |-> [k \in (DOMAIN mc.store) \ {Head(mc.order)} |-> mc.store[k]],
             order |-> Tail(mc.order)], maxEntries)
    ELSE mc

\* The eviction loop of MemoryCache.Set.
RECURSIVE EvictWhileFull(_, _)
EvictWhileFull(mc, maxEntries) ==
    IF Cardinality(DOMAIN mc.store) >= maxEntries /\ Len(mc.order) > 0
    THEN EvictWhileFull(
            [store |-> [k \in (DOMAIN mc.store) \ {Head(mc.order)} |-> mc.store[k]],
             order |-> Tail(mc.order)], maxEntries)
    ELSE mc

\* A Set without the test of NoStore.
CacheSetStoresAll(mc, key, entry, maxEntries) ==
    LET ev == EvictWhileFull(mc, maxEntries)
    IN  [store |-> [k \in (DOMAIN ev.store) \cup {key} |->
                       IF k = key THEN entry ELSE ev.store[k]],
         order |-> IF key \in DOMAIN ev.store THEN ev.order
                   ELSE Append(ev.order, key)]

\* MemoryCache.Set
CacheSet(mc, key, entry, maxEntries) ==
    IF entry.cacheControl.noStore THEN mc
    ELSE LET ev == EvictWhileFull(mc, maxEntries)
         IN  [store |-> [k \in (DOMAIN ev.store) \cup {key} |->
                            IF k = key THEN entry ELSE ev.store[k]],
              order |-> IF key \in DOMAIN ev.store THEN ev.order
                        ELSE Append(ev.order, key)]

\* ------------------------------------------------ retry policy ---
\* A time.Duration is an int64 count of nanoseconds.
\* time.Second
Second == Int64(1000000000)

\* n * time.Second
Seconds(n) == Mul64(Int64(n), Second)

\* calculateBackoff, and the same expression in executeWithRetry:
\* min(time.Duration(1<<(attempt-1))*time.Second, 30*time.Second)
calculateBackoff(attempt) ==
    Min64(Mul64(Shl64(Int64(1), attempt - 1), Second), Seconds(30))

\* x divided by the number n, 0 < n <= 2^16, for an int64 x that is not
\* negative: the bytes i..1 of the quotient, rem being what the bytes above
\* them left.
RECURSIVE DivFrom(_, _, _, _)
DivFrom(x, n, i, rem) ==
    IF i = 0 THEN <<>>
    ELSE DivFrom(x, n, i - 1, (rem * Byte + x[i]) % n) \o <<(rem * Byte + x[i]) \div n>>

Div64(x, n) == DivFrom(x, n, Bytes, 0)

\* The number an int64 from 0 to 2^31 - 1 stands for.
Fits31(x) == x[4] < Byte \div 2 /\ \A i \in 5..Bytes : x[i] = 0
Nat31(x) == x[1] + Byte * (x[2] + Byte * (x[3] + Byte * x[4]))

\* The clock of the model reads whole seconds up to Horizon, some 63 years
\* on; a sleep that lasts longer has not returned by then (Never).
Horizon == 2000000000
Never == 0 - 1

\* The whole seconds the clock has moved on by when time.Sleep(d) returns:
\* none for a d that is not positive, which returns at once, nor for one
\* below a second; d \div time.Second otherwise.
SleepSeconds(d) ==
    IF Negative64(d) \/ d = Zero64 THEN 0
    ELSE LET q == Div64(Div64(Div64(d, 1000), 1000), 1000)
         IN  IF Fits31(q) /\ Nat31(q) <= Horizon THEN Nat31(q) ELSE Never

\* What the clock reads when a time.Sleep(d) begun at t returns.
WakeTime(t, d) ==
    LET seconds == SleepSeconds(d)
    IN  IF seconds = Never THEN Never ELSE t + seconds

\* The backoff by attempt number.
BackoffOf == [attempt \in 1..MaxAttempt |-> calculateBackoff(attempt)]
Backoff(attempt) ==
    IF attempt \in DOMAIN BackoffOf THEN BackoffOf[attempt] ELSE calculateBackoff(attempt)

\* The Retry-After headers the model's server sends with a 429: none, whole
\* seconds, text that is no number, and a number of seconds whose count of
\* nanoseconds is beyond an int64.
RetryAfters == {"", "0", "2", "x", "9223372037"}

\* strconv.Atoi of a Retry-After header, read off a table for the headers
\* of the model's server.
RetryAfterOf == [header \in RetryAfters |-> Atoi(header)]
AtoiRetryAfter(header) ==
    IF header \in DOMAIN RetryAfterOf THEN RetryAfterOf[header] ELSE Atoi(header)

\* The retryAfter executeWithRetry sleeps for, an int: 1 unless the
\* Retry-After header is present and strconv.Atoi reads it without error.
RetryAfterWait(header) ==
    IF header # "" /\ AtoiRetryAfter(header).ok
    THEN AtoiRetryAfter(header).val ELSE Int64(1)

\* What httpClient.Do returns to a level of executeWithRetry: a transport
\* error, or a response of which executeWithRetry reads the status and the
\* Retry-After header; ctx names the context error a transport error
\* carries: "" for none (the network failed), "deadline exceeded" or
\* "canceled".
NetErr == [err |-> TRUE, status |-> 0, retryAfter |-> "", ctx |-> ""]
Response(status, retryAfter) ==
    [err |-> FALSE, status |-> status, retryAfter |-> retryAfter, ctx |-> ""]
CtxErr(why) == [NetErr EXCEPT !.ctx = why]

\* Before that the request may fail to be built; the message of the error
\* returned when json.Marshal(body) fails, the body holding a value JSON
\* cannot encode,
MarshalErr == "failed to marshal request body"
\* and when http.NewRequestWithContext fails, the URL not parsing.
RequestErr == "failed to create request"

\* The deadline of the context a level of executeWithRetry sends its request
\* under.  Each level derives its context with context.WithTimeout from the
\* one it was given, which for a retry is the context of the level that
\* called it: the deadline is the earliest of (start + timeout) over the
\* levels so far.  starts lists their start times, this level's last.
RECURSIVE CtxDeadline(_, _)
CtxDeadline(starts, timeout) ==
    IF Len(starts) = 1 THEN starts[1] + timeout
    ELSE Min2(CtxDeadline(SubSeq(starts, 1, Len(starts) - 1), timeout),
              starts[Len(starts)] + timeout)

\* What httpClient.Do may return when it returns at time t, the network
\* having `out` for the request: the set of the outcomes.  The context of
\* the request is done from the time the caller cancelled the context it
\* passed (cancelledAt, Never when it has not) or from its deadline, and its
\* error tells which came first.  The clock reads whole seconds, and of two
\* events of one second either may be the first: a cancellation in the
\* second of the deadline leaves either error, and a response that arrives
\* in the second in which the context is done may be returned or lost to
\* the error.  A request whose context was cancelled before it was sent
\* (cancelledFirst) is not sent, and the error is returned.
Attempt(starts, timeout, cancelledAt, cancelledFirst, out, t) ==
    LET d    == CtxDeadline(starts, timeout)
        done == IF cancelledAt = Never THEN d ELSE Min2(cancelledAt, d)
        errs == IF cancelledAt = Never \/ cancelledAt > d
                THEN {CtxErr("deadline exceeded")}
                ELSE IF cancelledAt < d THEN {CtxErr("canceled")}
                ELSE {CtxErr("canceled"), CtxErr("deadline exceeded")}
    IN  IF t < done THEN {out}
        ELSE IF t = done /\ ~cancelledFirst THEN {out} \cup errs
        ELSE errs

\* time.Duration(retryAfter) * time.Second, the product taken on int64.
RateLimitSleep(header) == Mul64(RetryAfterWait(header), Second)

\* The same by Retry-After header, for the headers the model's server sends.
RateLimitSleepOf == [header \in RetryAfters |-> RateLimitSleep(header)]
RateLimitWait(header) ==
    IF header \in DOMAIN RateLimitSleepOf THEN RateLimitSleepOf[header]
    ELSE RateLimitSleep(header)

\* RetryDecision with the attempt test off by one: a retry is still granted
\* on attempt maxRetries+1.
RetryDecisionOneMore(attempt, maxRetries, out) ==
    IF out.err
    THEN IF attempt <= maxRetries + 1
         THEN [act |-> "retry", wait |-> Backoff(attempt)]
         ELSE [act |-> "fail", wait |-> Zero64]
    ELSE IF out.status = 429 /\ attempt <= maxRetries + 1
         THEN [act |-> "retry", wait |-> RateLimitWait(out.retryAfter)]
    ELSE IF out.status >= 500 /\ attempt <= maxRetries + 1
         THEN [act |-> "retry", wait |-> Backoff(attempt)]
    ELSE [act |-> "return", wait |-> Zero64]

\* What executeWithRetry does with the outcome of attempt `attempt`:
\* "retry" after time.Sleep(wait), wait a time.Duration, "fail" with the
\* wrapped transport error, or "return" the response to requestWithOptions.
RetryDecision(attempt, maxRetries, out) ==
    IF out.err
    THEN IF attempt <= maxRetries
         THEN [act |-> "retry", wait |-> Backoff(attempt)]
         ELSE [act |-> "fail", wait |-> Zero64]
    ELSE IF out.status = 429 /\ attempt <= maxRetries
         THEN [act |-> "retry", wait |-> RateLimitWait(out.retryAfter)]
    ELSE IF out.status >= 500 /\ attempt <= maxRetries
         THEN [act |-> "retry", wait |-> Backoff(attempt)]
    ELSE [act |-> "return", wait |-> Zero64]

\* ------------------------------------------------ error classifier ---
\* http.StatusText: the reason phrase of a status code net/http knows, and
\* "" for any other.
StatusText(status) ==
    CASE status = 100 -> "Continue"
      [] status = 101 -> "Switching Protocols"
      [] status = 102 -> "Processing"
      [] status = 103 -> "Early Hints"
      [] status = 200 -> "OK"
      [] status = 201 -> "Created"
      [] status = 202 -> "Accepted"
      [] status = 203 -> "Non-Authoritative Information"
      [] status = 204 -> "No Content"
      [] status = 205 -> "Reset Content"
      [] status = 206 -> "Partial Content"
      [] status = 207 -> "Multi-Status"
      [] status = 208 -> "Already Reported"
      [] status = 226 -> "IM Used"
      [] status = 300 -> "Multiple Choices"
      [] status = 301 -> "Moved Permanently"
      [] status = 302 -> "Found"
      [] status = 303 -> "See Other"
      [] status = 304 -> "Not Modified"
      [] status = 305 -> "Use Proxy"
      [] status = 307 -> "Temporary Redirect"
      [] status = 308 -> "Permanent Redirect"
      [] status = 400 -> "Bad Request"
      [] status = 401 -> "Unauthorized"
      [] status = 402 -> "Payment Required"
      [] status = 403 -> "Forbidden"
      [] status = 404 -> "Not Found"
      [] status = 405 -> "Method Not Allowed"
      [] status = 406 -> "Not Acceptable"
      [] status = 407 -> "Proxy Authentication Required"
      [] status = 408 -> "Request Timeout"
      [] status = 409 -> "Conflict"
      [] status = 410 -> "Gone"
      [] status = 411 -> "Length Required"
      [] status = 412 -> "Precondition Failed"
      [] status = 413 -> "Request Entity Too Large"
      [] status = 414 -> "Request URI Too Long"
      [] status = 415 -> "Unsupported Media Type"
      [] status = 416 -> "Requested Range Not Satisfiable"
      [] status = 417 -> "Expectation Failed"
      [] status = 418 -> "I'm a teapot"
      [] status = 421 -> "Misdirected Request"
      [] status = 422 -> "Unprocessable Entity"
      [] status = 423 -> "Locked"
      [] status = 424 -> "Failed Dependency"
      [] status = 425 -> "Too Early"
      [] status = 426 -> "Upgrade Required"
      [] status = 428 -> "Precondition Required"
      [] status = 429 -> "Too Many Requests"
      [] status = 431 -> "Request Header Fields Too Large"
      [] status = 451 -> "Unavailable For Legal Reasons"
      [] status = 500 -> "Internal Server Error"
      [] status = 501 -> "Not Implemented"
      [] status = 502 -> "Bad Gateway"
      [] status = 503 -> "Service Unavailable"
      [] status = 504 -> "Gateway Timeout"
      [] status = 505 -> "HTTP Version Not Supported"
      [] status = 506 -> "Variant Also Negotiates"
      [] status = 507 -> "Insufficient Storage"
      [] status = 508 -> "Loop Detected"
      [] status = 510 -> "Not Extended"
      [] status = 511 -> "Network Authentication Required"
      [] OTHER -> ""

\* A response body.  json: the bytes are a JSON object; val: what decoding
\* it into the caller's result yields; error, detail, errors: the fields
\* parseErrorResponse looks for.
\* errors is the set of <<field, message>> pairs of the "errors" object.
EmptyFields == {}
JSONBody(val) ==
    [json |-> TRUE, empty |-> FALSE, val |-> val,
     error |-> "", detail |-> "", errors |-> EmptyFields]
ErrorBody(error, detail, errors) ==
    [json |-> TRUE, empty |-> FALSE, val |-> "zero",
     error |-> error, detail |-> detail, errors |-> errors]
\* Bytes that are not JSON (an HTML error page, a truncated document).
RawBody ==
    [json |-> FALSE, empty |-> FALSE, val |-> "",
     error |-> "", detail |-> "", errors |-> EmptyFields]
\* No bytes at all (204 No Content, Content-Length: 0).
EmptyBody == [RawBody EXCEPT !.empty = TRUE]

\* The value a call returns: kind "ok" is a nil error; every other kind is
\* the Go type of the error.  wrapError is what fmt.Errorf("...: %w") builds,
\* its message the text before the colon.  retryAfter is an int.
NoResult ==
    [kind |-> "none", status |-> 0, message |-> "", detail |-> "",
     errors |-> EmptyFields, retryAfter |-> Zero64]
Success == [NoResult EXCEPT !.kind = "ok"]
Failure(kind, status, message) ==
    [NoResult EXCEPT !.kind = kind, !.status = status, !.message = message]

\* parseErrorResponse with executeWithRetry's default of 1 in place of 60.
parseErrorResponseDefaultOne(status, retryAfterHeader, body) ==
    LET msg == IF body.json /\ body.error # "" THEN body.error ELSE StatusText(status)
    IN  CASE status = 400 ->
               [Failure("ValidationError", 400, msg) EXCEPT
                    !.errors = IF body.json THEN body.errors ELSE EmptyFields]
          [] status = 401 -> Failure("AuthenticationError", 401, msg)
          [] status = 403 -> Failure("ForbiddenError", 403, msg)
          [] status = 404 -> Failure("NotFoundError", 404, msg)
          [] status = 429 ->
               [Failure("RateLimitError", 429, msg) EXCEPT
                    !.retryAfter = RetryAfterWait(retryAfterHeader)]
          [] OTHER ->
               [Failure("RefyneError", status, msg) EXCEPT
                    !.detail = IF body.json THEN body.detail ELSE ""]

parseErrorResponse(status, retryAfterHeader, body) ==
    LET msg == IF body.json /\ body.error # "" THEN body.error ELSE StatusText(status)
    IN  CASE status = 400 ->
               [Failure("ValidationError", 400, msg) EXCEPT
                    !.errors = IF body.json THEN body.errors ELSE EmptyFields]
          [] status = 401 -> Failure("AuthenticationError", 401, msg)
          [] status = 403 -> Failure("ForbiddenError", 403, msg)
          [] status = 404 -> Failure("NotFoundError", 404, msg)
          [] status = 429 ->
               [Failure("RateLimitError", 429, msg) EXCEPT
                    !.retryAfter =
                        IF retryAfterHeader # "" /\ AtoiRetryAfter(retryAfterHeader).ok
                        THEN AtoiRetryAfter(retryAfterHeader).val ELSE Int64(60)]
          [] OTHER ->
               [Failure("RefyneError", status, msg) EXCEPT
                    !.detail = IF body.json THEN body.detail ELSE ""]

\* ---- hashString ----
\* A uint32 is kept as its two 16-bit halves, <<high, low>>.
ZeroUint32 == <<0, 0>>
\* x << 5, x - y and x + y, each modulo 2^32.
Shl5(x) == <<(x[1] * 32 + (x[2] * 32) \div 65536) % 65536, (x[2] * 32) % 65536>>
Sub32(x, y) ==
    LET borrow == IF x[2] < y[2] THEN 1 ELSE 0
    IN  <<(x[1] - y[1] - borrow + 65536) % 65536, (x[2] - y[2] + 65536) % 65536>>
Add32(x, y) ==
    <<(x[1] + y[1] + (x[2] + y[2]) \div 65536) % 65536, (x[2] + y[2]) % 65536>>

\* The loop of hashString over the runes of s from place i on:
\* h = ((h << 5) - h) + uint32(c), c being U+FFFD for a byte that begins no
\* well-formed encoding.
RECURSIVE HashFrom(_, _, _)
HashFrom(h, s, i) ==
    IF i > Len(s) THEN h
    ELSE LET d == DecodeRune(s, i)
         IN  HashFrom(Add32(Sub32(Shl5(h), h), <<d[1] \div 65536, d[1] % 65536>>),
                      s, i + d[2])

\* strconv.FormatUint(uint64(h), 36): the digits 0-9a-z, no leading zeros.
Base36Digits == "0123456789abcdefghijklmnopqrstuvwxyz"
RECURSIVE FormatFrom(_)
FormatFrom(h) ==
    IF h = ZeroUint32 THEN ""
    ELSE LET n == (h[1] % 36) * 65536 + h[2]
         IN  FormatFrom(<<h[1] \div 36, n \div 36>>) \o CharAt(Base36Digits, (n % 36) + 1)
FormatUint36(h) == IF h = ZeroUint32 THEN "0" ELSE FormatFrom(h)

hashString(s) == FormatUint36(HashFrom(ZeroUint32, s, 1))

\* GenerateCacheKey with the method as it is given.
GenerateCacheKeyAsGiven(method, urlStr, authHash) ==
    IF authHash # ""
    THEN method \o ":" \o urlStr \o ":" \o authHash
    ELSE method \o ":" \o urlStr

\* GenerateCacheKey
GenerateCacheKey(method, urlStr, authHash) ==
    IF authHash # ""
    THEN ToUpper(method) \o ":" \o urlStr \o ":" \o authHash
    ELSE ToUpper(method) \o ":" \o urlStr

\* ------------------------------------------------------- the client ---
DefaultBaseURL == "https://api.refyne.uk"

\* The shapes of call the SDK's methods make of requestWithOptions:
\* cached GETs, the skip-cache GETs of Jobs.Get and Jobs.GetResults, writes
\* with a result, and the writes without one (Delete, Revoke, SetChain).
CallKinds ==
    { [method |-> "GET",    skipCache |-> FALSE, hasResult |-> TRUE],
      [method |-> "GET",    skipCache |-> TRUE,  hasResult |-> TRUE],
      [method |-> "POST",   skipCache |-> FALSE, hasResult |-> TRUE],
      [method |-> "DELETE", skipCache |-> FALSE, hasResult |-> FALSE] }
Paths == {"/api/v1/usage", "/api/v1/schemas"}

\* What the server may answer with.
Statuses == {200, 400, 401, 403, 404, 409, 429, 500}
APIVersions == {"", "0.0.0", "0.5.0", "2.0.0"}
CacheControls == {"", "max-age=1", "no-store, max-age=1", "private"}
SuccessBodies == {JSONBody("v1"), JSONBody("v2"), RawBody, EmptyBody}
\* The body of the responses of the specifications that vary something else.
PlainBody == JSONBody("v1")
ErrorBodies ==
    { ErrorBody("validation failed", "", {<<"url", "required">>}),
      ErrorBody("", "boom", EmptyFields),
      RawBody }

\* What may keep a request from being built; "" for nothing.
BuildFailures == {"", MarshalErr, RequestErr}

Outcomes ==
    {NetErr} \cup
    { Response(st, ra) : st \in Statuses \ {429}, ra \in {""} } \cup
    { Response(429, ra) : ra \in RetryAfters }

Calls == 1..NumCalls

VARIABLES
    cfg,                \* the client's options
    call,               \* per logical call: position and locals
    apiVersionChecked,  \* Client.apiVersionChecked
    mu,                 \* Client.mu: 0 when free, else the call holding it
    cache,              \* the client's MemoryCache
    now,                \* time.Now().Unix(); a run begins at the epoch
    evals,              \* calls of CheckAPIVersionCompatibility so far
    ops,                \* goroutines calling the MemoryCache directly
    fn                  \* the latest call of a pure function: its arguments and result

vars == <<cfg, call, apiVersionChecked, mu, cache, now, evals, ops, fn>>

\* No pure function has been called.
NoCall == [op |-> "none", args |-> <<>>, out |-> <<>>]

\* A goroutine that calls the MemoryCache directly is between calls
\* (pc "idle") or inside Get: after the read of the map and before the test
\* of what it read (pc "test"), or after the test of an expired entry and
\* before the Delete of its key (pc "purge").  last is the call that returned most
\* recently: for a Get, what it reported (kind "purge" when it deleted an
\* expired entry first); for a Set, whether the key was present before
\* (found) and the keys the call removed (evicted).
Goroutines == {"g1", "g2"}
IdleOp ==
    [pc |-> "idle", op |-> "", key |-> "", entry |-> NoEntry, oldest |-> "",
     removed |-> NoEntry]
\* MemoryCache.mu, free
FreeMu == [writer |-> "", readers |-> {}]
NoOps ==
    [pending |-> [g \in Goroutines |-> IdleOp],
     rw |-> FreeMu,
     last |-> [kind |-> "none", key |-> "", found |-> FALSE, evicted |-> {}]]

IdleCall ==
    [pc |-> "idle", method |-> "", path |-> "", skipCache |-> FALSE,
     hasResult |-> FALSE, key |-> "",
     attempt |-> 0, sent |-> 0, outs |-> <<>>, waits |-> <<>>, starts |-> <<>>,
     ends |-> <<>>, cancelledAt |-> Never, cancelledFirst |-> FALSE,
     wake |-> 0, status |-> 0, retryAfter |-> "",
     apiVersion |-> "", flagSeen |-> FALSE, evaluated |-> FALSE, warned |-> "",
     body |-> EmptyBody, seen |-> NoEntry, made |-> NoEntry,
     hit |-> FALSE, hitAt |-> -1, wrote |-> NoEntry, value |-> "", result |-> NoResult]

\* NewClient's timeout, in seconds.
DefaultTimeout == 30

\* NewClient with WithMaxRetries and WithCacheEnabled options.
Configs ==
    { [maxRetries |-> r, cacheOn |-> on, apiKey |-> "k", authHash |-> hashString("k"),
       timeout |-> DefaultTimeout,
       maxEntries |-> MaxEntries] :
          r \in 0..RetryLimit, on \in BOOLEAN }

InitWith(configs) ==
    /\ cfg \in configs
    /\ call = [c \in Calls |-> IdleCall]
    /\ apiVersionChecked = FALSE
    /\ mu = 0
    /\ cache = EmptyCache
    /\ now = 0
    /\ evals = 0
    /\ ops = NoOps
    /\ fn = NoCall

\* ---- the objects behind the pointers ----
\* The goroutine holds an entry it read from the map.
Reads(o) == o.entry.ok /\ o.op # "set"

\* The ids of the entries of the key that a call or a goroutine holds.
HeldIds(key) ==
    {call[d].seen.id : d \in {e \in Calls : call[e].key = key /\ call[e].seen.ok}}
    \cup {call[d].wrote.id : d \in {e \in Calls : call[e].key = key /\ call[e].wrote.ok}}
    \cup {ops.pending[g].entry.id :
              g \in {h \in Goroutines : ops.pending[h].key = key /\ Reads(ops.pending[h])}}
    \cup {ops.pending[g].removed.id :
              g \in {h \in Goroutines : ops.pending[h].key = key /\ ops.pending[h].removed.ok}}

\* The least id above 1 that no entry held under the key has.
StaleId(key) ==
    CHOOSE n \in 2..(Cardinality(HeldIds(key)) + 2) :
        /\ n \notin HeldIds(key)
        /\ \A m \in 2..(n - 1) : m \in HeldIds(key)

\* A pointer to an entry, once another entry has been stored under its key:
\* the entry that was the last is no more.
Aged(entry, n) == IF entry.ok /\ entry.id = 1 THEN [entry EXCEPT !.id = n] ELSE entry

\* The calls, and the goroutines, once an entry has been stored under key.
CallsAfterSet(key) ==
    [d \in Calls |->
        IF call[d].key = key
        THEN [call[d] EXCEPT !.seen = Aged(@, StaleId(key)),
                             !.wrote = Aged(@, StaleId(key))]
        ELSE call[d]]

PendingAfterSet(key) ==
    [g \in Goroutines |->
        IF ops.pending[g].key = key
        THEN [ops.pending[g] EXCEPT
                !.entry = IF Reads(ops.pending[g]) THEN Aged(@, StaleId(key)) ELSE @,
                !.removed = Aged(@, StaleId(key))]
        ELSE ops.pending[g]]

\* What a read of a value yields that is not synchronised with a write of
\* it, a data race: the value written, or the bytes of the old value and of
\* the new mixed ("torn"), or a fault of the runtime on a pointer or a
\* length that belongs to neither ("fault").  A read that comes before the
\* write is a step before it.
Races == {"", "torn", "fault"}
Raced(written, race) == IF race = "" THEN written ELSE race

\* The call is inside its lookup with a pointer to the entry `id` of the key.
Marshals(d, key, id) ==
    /\ call[d].pc = "lookup"
    /\ call[d].key = key
    /\ call[d].seen.ok
    /\ call[d].seen.id = id

\* The calls, the goroutines and the MemoryCache once the Value of the
\* entry `id` of the key has been written: every pointer to the entry shows
\* the write.  json.Marshal(entry.Value) of a call inside its lookup is not
\* synchronised with it; race[d] is what that of call d reads, "" for a call
\* that is not reading the entry.
CallsAfterWrite(key, id, value, ref, race) ==
    [d \in Calls |->
        IF call[d].key # key THEN call[d]
        ELSE [call[d] EXCEPT
                !.seen = IF @.ok /\ @.id = id
                         THEN [@ EXCEPT !.value = Raced(value, race[d]),
                                        !.ref = ref]
                         ELSE @,
                !.wrote = IF @.ok /\ @.id = id
                          THEN [@ EXCEPT !.value = value, !.ref = ref]
                          ELSE @]]

PendingAfterWrite(key, id, value, ref) ==
    [g \in Goroutines |->
        IF /\ ops.pending[g].key = key
           /\ Reads(ops.pending[g])
           /\ ops.pending[g].entry.id = id
        THEN [ops.pending[g] EXCEPT !.entry.value = value, !.entry.ref = ref]
        ELSE ops.pending[g]]

CacheAfterWrite(key, id, value, ref) ==
    IF key \in DOMAIN cache.store /\ cache.store[key].id = id
    THEN [cache EXCEPT !.store[key].value = value, !.store[key].ref = ref]
    ELSE cache

\* StartCall without the cache lookup: every call goes to the network.
StartCallNoLookup(c, kind, path) ==
    /\ call[c].pc = "idle"
    /\ call' = [call EXCEPT ![c] =
          [call[c] EXCEPT !.method = kind.method, !.path = path,
                          !.skipCache = kind.skipCache,
                          !.hasResult = kind.hasResult,
                          !.key = GenerateCacheKey(kind.method, DefaultBaseURL \o path,
                                                   cfg.authHash),
                          !.pc = "send", !.attempt = 1]]
    /\ UNCHANGED <<cfg, apiVersionChecked, mu, cache, now, evals, ops, fn>>

\* A cached value is any Go value.  Two kinds beside the decoded results
\* matter to the lookup: one json.Marshal cannot encode (it holds a channel,
\* a func, a NaN), and one that encodes to JSON which json.Unmarshal cannot
\* decode into the caller's result (a field of another type).
Encodes(value) == value # "unencodable"
Decodes(value) == value # "mismatched"

\* StartCall with the lookup made for the skip-cache calls too.
StartCallLookupAlways(c, kind, path) ==
    /\ call[c].pc = "idle"
    /\ LET key == GenerateCacheKey(kind.method, DefaultBaseURL \o path, cfg.authHash)
           started == [call[c] EXCEPT !.method = kind.method, !.path = path,
                                      !.skipCache = kind.skipCache,
                                      !.hasResult = kind.hasResult, !.key = key]
       IN  call' = [call EXCEPT ![c] =
              IF kind.method = "GET" /\ cfg.cacheOn
              THEN [started EXCEPT !.pc = "lookup",
                                   !.seen = IF key \in DOMAIN cache.store
                                            THEN cache.store[key] ELSE NoEntry]
              ELSE [started EXCEPT !.pc = "send", !.attempt = 1]]
    /\ UNCHANGED <<cfg, apiVersionChecked, mu, cache, now, evals, ops, fn>>

\* requestWithOptions up to the call of executeWithRetry or, for a cached
\* GET, into c.cache.Get: the cache key and the read of the map under the
\* read lock.  seen is the entry Get holds when it has released the lock.
StartCall(c, kind, path) ==
    /\ call[c].pc = "idle"
    /\ LET key == GenerateCacheKey(kind.method, DefaultBaseURL \o path, cfg.authHash)
           started == [call[c] EXCEPT !.method = kind.method, !.path = path,
                                      !.skipCache = kind.skipCache,
                                      !.hasResult = kind.hasResult, !.key = key]
       IN  call' = [call EXCEPT ![c] =
              IF kind.method = "GET" /\ cfg.cacheOn /\ ~kind.skipCache
              THEN [started EXCEPT !.pc = "lookup",
                                   !.seen = IF key \in DOMAIN cache.store
                                            THEN cache.store[key] ELSE NoEntry]
              ELSE [started EXCEPT !.pc = "send", !.attempt = 1]]
    /\ UNCHANGED <<cfg, apiVersionChecked, mu, cache, now, evals, ops, fn>>

\* The rest of c.cache.Get, with the lock released, and what
\* requestWithOptions does with its answer.  Get reads the clock: an entry
\* that has expired and is not within its stale-while-revalidate allowance
\* goes to c.Delete(key); any other is a hit, and the call returns the
\* cached value decoded into the result, or the error of that decoding; a
\* value that does not encode is passed over and the request is made.  When
\* the value was being written while json.Marshal read it, the call returns
\* what the read yielded, or the goroutine faults.
Lookup(c) ==
    /\ call[c].pc = "lookup"
    /\ LET me == call[c]
           entry == me.seen
       IN  call' = [call EXCEPT ![c] =
              IF ~entry.ok
              THEN [me EXCEPT !.pc = "send", !.attempt = 1]
              ELSE IF Expired(entry, now) /\ ~WithinStale(entry, now)
              THEN [me EXCEPT !.pc = "purge"]
              ELSE IF entry.value = "fault"
              THEN [me EXCEPT !.pc = "done", !.hitAt = now,
                              !.result = Failure("fault", 0, "")]
              ELSE IF ~Encodes(entry.value)
              THEN [me EXCEPT !.pc = "send", !.attempt = 1, !.seen = NoEntry]
              ELSE IF Decodes(entry.value)
              THEN [me EXCEPT !.pc = "done", !.hit = TRUE, !.hitAt = now,
                              !.value = entry.value, !.result = Success]
              ELSE [me EXCEPT !.pc = "done", !.hit = TRUE, !.hitAt = now,
                              !.result = Failure("UnmarshalTypeError", 0, "")]]
    /\ UNCHANGED <<cfg, apiVersionChecked, mu, cache, now, evals, ops, fn>>

\* c.Delete(key) for the expired entry, under the write lock: whatever the
\* key maps to by now is removed; Get reports a miss and the request is made.
Purge(c) ==
    /\ call[c].pc = "purge"
    /\ cache' = CacheDelete(cache, call[c].key)
    /\ call' = [call EXCEPT ![c].pc = "send", ![c].attempt = 1, ![c].seen = NoEntry]
    /\ UNCHANGED <<cfg, apiVersionChecked, mu, now, evals, ops, fn>>

\* The calls that pass requestWithOptions a body to encode.
HasBody(method) == method \in {"POST", "PUT"}

\* A level of executeWithRetry up to its call of httpClient.Do:
\* context.WithTimeout, the encoding of the body and the building of the
\* request.  A body or a URL that fails to make a request (failure) fails
\* on the first level, the later ones being given the same; the error is
\* returned with no request sent.
Send(c, failure) ==
    /\ call[c].pc = "send"
    /\ IF failure # ""
       THEN /\ call[c].attempt = 1
            /\ failure = MarshalErr => HasBody(call[c].method)
            /\ call' = [call EXCEPT ![c].pc = "done",
                                    ![c].result = Failure("wrapError", 0, failure)]
       ELSE call' = [call EXCEPT ![c].pc = "flight", ![c].sent = @ + 1,
                                 ![c].starts = Append(@, now),
                                 ![c].cancelledFirst = (call[c].cancelledAt # Never)]
    /\ UNCHANGED <<cfg, apiVersionChecked, mu, cache, now, evals, ops, fn>>

\* httpClient.Do returns, the network having `out` for the request, and the
\* level goes on to what follows it: the sleep before a retry, the return
\* of the transport error, or the return of the response.
Do(c, out) ==
    /\ call[c].pc = "flight"
    /\ \E got \in Attempt(call[c].starts, cfg.timeout, call[c].cancelledAt,
                          call[c].cancelledFirst, out, now) :
       LET me   == call[c]
           d    == RetryDecision(me.attempt, cfg.maxRetries, got)
           back == [me EXCEPT !.outs = Append(@, got), !.ends = Append(@, now)]
       IN  call' = [call EXCEPT ![c] =
              CASE d.act = "retry" ->
                     [back EXCEPT !.pc = "sleep", !.waits = Append(@, d.wait),
                                  !.wake = WakeTime(now, d.wait),
                                  !.attempt = @ + 1]
                [] d.act = "fail" ->
                     [back EXCEPT !.pc = "done",
                                  !.result = Failure("wrapError", 0, "network error")]
                [] OTHER ->
                     [back EXCEPT !.pc = "lock", !.status = got.status,
                                  !.retryAfter = got.retryAfter]]
    /\ UNCHANGED <<cfg, apiVersionChecked, mu, cache, now, evals, ops, fn>>

\* The caller cancels the context it passed to the call.
Cancel(c) ==
    /\ call[c].pc \in {"send", "flight", "sleep"}
    /\ call[c].cancelledAt = Never
    /\ call' = [call EXCEPT ![c].cancelledAt = now]
    /\ UNCHANGED <<cfg, apiVersionChecked, mu, cache, now, evals, ops, fn>>

\* The clock may move on to t: no request is in flight under a context that
\* is done before t.  httpClient.Do returns the error of a context that is
\* done in the second in which it is.
MayPass(t) ==
    \A c \in Calls :
        call[c].pc = "flight" =>
            /\ call[c].cancelledAt = Never
            /\ t <= CtxDeadline(call[c].starts, cfg.timeout)

\* time.Sleep returns: the wait has elapsed (the clock is at the wake-up
\* time, or past it when it has been ticking meanwhile); the next level starts.
Wake(c) ==
    /\ call[c].pc = "sleep"
    /\ call[c].wake # Never
    /\ MayPass(Max2(now, call[c].wake))
    /\ now' = Max2(now, call[c].wake)
    /\ call' = [call EXCEPT ![c].pc = "send"]
    /\ UNCHANGED <<cfg, apiVersionChecked, mu, cache, evals, ops, fn>>

\* c.mu.Lock()
MutexFree == mu = 0

\* Lock that does not wait for the mutex to be free.
LockAnyway(c) ==
    /\ call[c].pc = "lock"
    /\ mu' = c
    /\ call' = [call EXCEPT ![c].pc = "check"]
    /\ UNCHANGED <<cfg, apiVersionChecked, cache, now, evals, ops, fn>>

Lock(c) ==
    /\ call[c].pc = "lock"
    /\ MutexFree
    /\ mu' = c
    /\ call' = [call EXCEPT ![c].pc = "check"]
    /\ UNCHANGED <<cfg, apiVersionChecked, cache, now, evals, ops, fn>>

\* CheckVersion without the test of the flag: the header of every response
\* is inspected.
CheckVersionEveryResponse(c, apiVersion) ==
    /\ call[c].pc = "check"
    /\ LET seen == [call[c] EXCEPT !.apiVersion = apiVersion,
                                   !.flagSeen = apiVersionChecked]
           r == CheckAPIVersionCompatibility(apiVersion)
       IN  IF apiVersion # ""
           THEN /\ evals' = Min2(evals + 1, MaxEvals)
                /\ IF r.err
                   THEN /\ call' = [call EXCEPT ![c] =
                              [seen EXCEPT !.pc = "done", !.evaluated = TRUE,
                                  !.result = Failure("UnsupportedAPIVersionError", 0, "")]]
                        /\ mu' = 0
                   ELSE /\ call' = [call EXCEPT ![c] =
                              [seen EXCEPT !.pc = "mark", !.evaluated = TRUE,
                                  !.warned = IF r.warn THEN "newer" ELSE ""]]
                        /\ mu' = mu
           ELSE /\ call' = [call EXCEPT ![c] = [seen EXCEPT !.pc = "mark", !.warned = "missing"]]
                /\ mu' = mu
                /\ evals' = evals
    /\ UNCHANGED <<cfg, apiVersionChecked, cache, now, ops, fn>>

\* CheckVersion that goes on with the mutex held when it finds the flag set.
CheckVersionKeepsLock(c, apiVersion) ==
    /\ call[c].pc = "check"
    /\ LET seen == [call[c] EXCEPT !.apiVersion = apiVersion,
                                   !.flagSeen = apiVersionChecked]
           r == CheckAPIVersionCompatibility(apiVersion)
       IN  IF apiVersionChecked
           THEN /\ call' = [call EXCEPT ![c] = [seen EXCEPT !.pc = "read"]]
                /\ mu' = mu
                /\ evals' = evals
           ELSE IF apiVersion # ""
           THEN /\ evals' = Min2(evals + 1, MaxEvals)
                /\ IF r.err
                   THEN /\ call' = [call EXCEPT ![c] =
                              [seen EXCEPT !.pc = "done", !.evaluated = TRUE,
                                  !.result = Failure("UnsupportedAPIVersionError", 0, "")]]
                        /\ mu' = 0
                   ELSE /\ call' = [call EXCEPT ![c] =
                              [seen EXCEPT !.pc = "mark", !.evaluated = TRUE,
                                  !.warned = IF r.warn THEN "newer" ELSE ""]]
                        /\ mu' = mu
           ELSE /\ call' = [call EXCEPT ![c] = [seen EXCEPT !.pc = "mark", !.warned = "missing"]]
                /\ mu' = mu
                /\ evals' = evals
    /\ UNCHANGED <<cfg, apiVersionChecked, cache, now, ops, fn>>

\* Under the mutex: when the flag is unset, the X-API-Version header is read
\* and checked.  An error unlocks and returns with the flag still unset.
CheckVersion(c, apiVersion) ==
    /\ call[c].pc = "check"
    /\ LET seen == [call[c] EXCEPT !.apiVersion = apiVersion,
                                   !.flagSeen = apiVersionChecked]
           r == CheckAPIVersionCompatibility(apiVersion)
       IN  IF apiVersionChecked
           THEN /\ call' = [call EXCEPT ![c] = [seen EXCEPT !.pc = "read"]]
                /\ mu' = 0
                /\ evals' = evals
           ELSE IF apiVersion # ""
           THEN /\ evals' = Min2(evals + 1, MaxEvals)
                /\ IF r.err
                   THEN /\ call' = [call EXCEPT ![c] =
                              [seen EXCEPT !.pc = "done", !.evaluated = TRUE,
                                  !.result = Failure("UnsupportedAPIVersionError", 0, "")]]
                        /\ mu' = 0
                   ELSE /\ call' = [call EXCEPT ![c] =
                              [seen EXCEPT !.pc = "mark", !.evaluated = TRUE,
                                  !.warned = IF r.warn THEN "newer" ELSE ""]]
                        /\ mu' = mu
           ELSE /\ call' = [call EXCEPT ![c] = [seen EXCEPT !.pc = "mark", !.warned = "missing"]]
                /\ mu' = mu
                /\ evals' = evals
    /\ UNCHANGED <<cfg, apiVersionChecked, cache, now, ops, fn>>

\* c.apiVersionChecked = true; c.mu.Unlock()
MarkChecked(c) ==
    /\ call[c].pc = "mark"
    /\ apiVersionChecked' = TRUE
    /\ mu' = 0
    /\ call' = [call EXCEPT ![c].pc = "read"]
    /\ UNCHANGED <<cfg, cache, now, evals, ops, fn>>

\* The deferred cancel() of the executeWithRetry that returned the call's
\* response has run: it runs as that function returns, so from the return on.
AttemptContextDone(me) ==
    /\ me.pc \in {"lock", "check", "mark", "read"}
    /\ Len(me.outs) > 0
    /\ ~me.outs[Len(me.outs)].err

\* The entry CreateCacheEntry(result, ...) makes in requestWithOptions: its
\* Value is the pointer the caller passed as its result.
Shared(entry) == IF entry.ok THEN [entry EXCEPT !.ref = TRUE] ELSE entry

\* Finish with the entry of the GET of the path deleted when a call of
\* another method succeeds.
FinishInvalidates(c, body, cacheControl, buffered) ==
    /\ call[c].pc = "read"
    /\ LET me == [call[c] EXCEPT !.body = body]
           entry == Shared(CreateCacheEntry(body.val, cacheControl, now))
           stores == me.method = "GET" /\ cfg.cacheOn /\ entry.ok
       IN  /\ call' = [call EXCEPT ![c] =
                  IF ~(body.empty \/ buffered)
                  THEN [call[c] EXCEPT !.pc = "done",
                           !.result = Failure("wrapError", 0, "failed to read response")]
                  ELSE IF me.status >= 400
                  THEN [me EXCEPT !.pc = "done",
                           !.result = parseErrorResponse(me.status, me.retryAfter, body)]
                  ELSE IF ~(me.hasResult /\ body.json)
                  THEN [me EXCEPT !.pc = "done",
                           !.result = Failure("wrapError", 0, "failed to parse response")]
                  ELSE IF stores
                  THEN [me EXCEPT !.pc = "store", !.value = body.val, !.made = entry]
                  ELSE [me EXCEPT !.pc = "done", !.value = body.val, !.result = Success]]
           /\ cache' = IF /\ call'[c].pc = "done"
                          /\ call'[c].result = Success
                          /\ me.method # "GET"
                       THEN CacheDelete(cache, GenerateCacheKey("GET",
                                DefaultBaseURL \o me.path, cfg.authHash))
                       ELSE cache
    /\ UNCHANGED <<cfg, apiVersionChecked, mu, now, evals, ops, fn>>

\* Finish with the result stored whatever the method and with caching
\* disabled too.
FinishStoresAlways(c, body, cacheControl, buffered) ==
    /\ call[c].pc = "read"
    /\ LET me == [call[c] EXCEPT !.body = body]
           entry == Shared(CreateCacheEntry(body.val, cacheControl, now))
           stores == entry.ok
       IN  /\ call' = [call EXCEPT ![c] =
                  IF ~(body.empty \/ buffered)
                  THEN [call[c] EXCEPT !.pc = "done",
                           !.result = Failure("wrapError", 0, "failed to read response")]
                  ELSE IF me.status >= 400
                  THEN [me EXCEPT !.pc = "done",
                           !.result = parseErrorResponse(me.status, me.retryAfter, body)]
                  ELSE IF ~(me.hasResult /\ body.json)
                  THEN [me EXCEPT !.pc = "done",
                           !.result = Failure("wrapError", 0, "failed to parse response")]
                  ELSE IF stores
                  THEN [me EXCEPT !.pc = "store", !.value = body.val, !.made = entry]
                  ELSE [me EXCEPT !.pc = "done", !.value = body.val, !.result = Success]]
           /\ cache' = cache
    /\ UNCHANGED <<cfg, apiVersionChecked, mu, now, evals, ops, fn>>

\* The rest of requestWithOptions up to its return or its call of
\* c.cache.Set: read the body, classify a status >= 400, decode, and make
\* the entry of a GET's result, which reads the clock.  `body` is what the
\* server sent (respBody once io.ReadAll has returned it); `buffered`: the
\* body had arrived in full when executeWithRetry returned and cancelled the
\* request's context.
Finish(c, body, cacheControl, buffered) ==
    /\ call[c].pc = "read"
    /\ LET me == [call[c] EXCEPT !.body = body]
           entry == Shared(CreateCacheEntry(body.val, cacheControl, now))
           stores == me.method = "GET" /\ cfg.cacheOn /\ entry.ok
       IN  /\ call' = [call EXCEPT ![c] =
                  IF ~(body.empty \/ buffered)
                  THEN [call[c] EXCEPT !.pc = "done",
                           !.result = Failure("wrapError", 0, "failed to read response")]
                  ELSE IF me.status >= 400
                  THEN [me EXCEPT !.pc = "done",
                           !.result = parseErrorResponse(me.status, me.retryAfter, body)]
                  ELSE IF ~(me.hasResult /\ body.json)
                  THEN [me EXCEPT !.pc = "done",
                           !.result = Failure("wrapError", 0, "failed to parse response")]
                  ELSE IF stores
                  THEN [me EXCEPT !.pc = "store", !.value = body.val, !.made = entry]
                  ELSE [me EXCEPT !.pc = "done", !.value = body.val, !.result = Success]]
           /\ cache' = cache
    /\ UNCHANGED <<cfg, apiVersionChecked, mu, now, evals, ops, fn>>

\* c.cache.Set(cacheKey, entry), under the write lock of the MemoryCache,
\* and the return of requestWithOptions.
Store(c) ==
    /\ call[c].pc = "store"
    /\ LET me    == call[c]
           after == CallsAfterSet(me.key)
       IN  /\ cache' = CacheSet(cache, me.key, me.made, cfg.maxEntries)
           /\ call' = [after EXCEPT ![c] =
                  [after[c] EXCEPT !.pc = "done", !.result = Success,
                                   !.wrote = me.made, !.made = NoEntry]]
           /\ ops' = [ops EXCEPT !.pending = PendingAfterSet(me.key)]
    /\ UNCHANGED <<cfg, apiVersionChecked, mu, now, evals, fn>>

\* requestWithOptions has returned; the caller goes on to its next call.
Return(c) ==
    /\ call[c].pc = "done"
    /\ call' = [call EXCEPT ![c] = IdleCall]
    /\ UNCHANGED <<cfg, apiVersionChecked, mu, cache, now, evals, ops, fn>>

\* The application builds a client for another API key around the cache of
\* the present one, NewClient(apiKey, WithCache(cache)) with the same other
\* options, and makes its next calls on it.
NewClient(apiKey) ==
    /\ \A c \in Calls : call[c].pc = "idle"
    /\ apiKey # cfg.apiKey
    /\ cfg' = [cfg EXCEPT !.apiKey = apiKey, !.authHash = hashString(apiKey)]
    /\ apiVersionChecked' = FALSE
    /\ mu' = 0
    /\ UNCHANGED <<call, cache, now, evals, ops, fn>>

\* The application stores an entry of its own in the cache it gave the
\* client (WithCache): CreateCacheEntry(value, "max-age=1"), then Set.
Seed(key, value) ==
    /\ cache' = CacheSet(cache, key, CreateCacheEntry(value, "max-age=1", now),
                         cfg.maxEntries)
    /\ call' = CallsAfterSet(key)
    /\ ops' = [ops EXCEPT !.pending = PendingAfterSet(key)]
    /\ UNCHANGED <<cfg, apiVersionChecked, mu, now, evals, fn>>

\* ---- the MemoryCache called directly, by the goroutines of SpecStore ----
\* The entry a caller hands to Set at time t: what CreateCacheEntry builds
\* for a response with the given Cache-Control header, or, for "no-store"
\* (for which CreateCacheEntry builds nothing), an entry built by hand with
\* NoStore set.
StoreEntry(header, t) ==
    IF header = "no-store"
    THEN [ok |-> TRUE, value |-> "v1", expiresAt |-> Int64(t + 1),
          cacheControl |-> [NoDirectives EXCEPT !.noStore = TRUE,
                                                !.maxAge = SomeInt(Int64(1))],
          id |-> 1, ref |-> FALSE]
    ELSE CreateCacheEntry("v1", header, t)

\* The Cache-Control headers of the entries handed to Set in SpecStore, and
\* the entries themselves, by header and time of the call.
StoreHeaders == {"max-age=1", "max-age=0, stale-while-revalidate=2", "no-store"}
StoreEntryAt == [header \in StoreHeaders, t \in 0..MaxTime |-> StoreEntry(header, t)]

\* MemoryCache.Set, under the write lock from first to last.
MCSet(g, key, header) ==
    /\ ops.pending[g].pc = "idle"
    /\ cache' = CacheSet(cache, key, StoreEntryAt[header, now], cfg.maxEntries)
    /\ ops' = [ops EXCEPT !.pending = IF StoreEntryAt[header, now].cacheControl.noStore
                                      THEN @ ELSE PendingAfterSet(key),
                          !.last =
                  [kind |-> "set", key |-> key, found |-> key \in DOMAIN cache.store,
                   evicted |-> (DOMAIN cache.store) \ (DOMAIN cache'.store)]]
    /\ call' = IF StoreEntryAt[header, now].cacheControl.noStore
               THEN call ELSE CallsAfterSet(key)
    /\ UNCHANGED <<cfg, apiVersionChecked, mu, now, evals, fn>>

\* MemoryCache.Get up to the release of the read lock: the read of the map.
\* The goroutine holds what it read (NoEntry for an absent key).
MCGetRead(g, key) ==
    /\ ops.pending[g].pc = "idle"
    /\ ops' = [ops EXCEPT !.pending[g] =
                  [IdleOp EXCEPT !.pc = "test", !.key = key,
                                 !.entry = IF key \in DOMAIN cache.store
                                           THEN cache.store[key] ELSE NoEntry]]
    /\ UNCHANGED <<cfg, call, apiVersionChecked, mu, cache, now, evals, fn>>

\* A Get that moves the key it finds to the end of the order, as a cache
\* evicting the least recently used key would.
MCGetTestPromote(g) ==
    /\ ops.pending[g].pc = "test"
    /\ LET key   == ops.pending[g].key
           entry == ops.pending[g].entry
           purge == entry.ok /\ Expired(entry, now) /\ ~WithinStale(entry, now)
       IN  IF purge
           THEN /\ ops' = [ops EXCEPT !.pending[g] = [IdleOp EXCEPT !.pc = "purge", !.key = key]]
                /\ cache' = cache
           ELSE /\ ops' = [ops EXCEPT !.pending[g] = IdleOp,
                                      !.last = [kind |-> "get", key |-> key,
                                                found |-> entry.ok, evicted |-> {}]]
                /\ cache' = IF entry.ok /\ key \in DOMAIN cache.store
                            THEN [cache EXCEPT !.order =
                                     LET Other(k) == k # key
                                     IN  Append(SelectSeq(cache.order, Other), key)]
                            ELSE cache
    /\ UNCHANGED <<cfg, call, apiVersionChecked, mu, now, evals, fn>>

\* MemoryCache.Get from the release of the read lock to its return or its
\* call of Delete: the clock is read and what was read from the map is
\* tested for expiry.
MCGetTest(g) ==
    /\ ops.pending[g].pc = "test"
    /\ LET key   == ops.pending[g].key
           entry == ops.pending[g].entry
           purge == entry.ok /\ Expired(entry, now) /\ ~WithinStale(entry, now)
       IN  ops' = IF purge
                  THEN [ops EXCEPT !.pending[g] = [IdleOp EXCEPT !.pc = "purge", !.key = key]]
                  ELSE [ops EXCEPT !.pending[g] = IdleOp,
                                   !.last = [kind |-> "get", key |-> key,
                                             found |-> entry.ok, evicted |-> {}]]
    /\ UNCHANGED <<cfg, call, apiVersionChecked, mu, cache, now, evals, fn>>

\* The same steps of a Get whose caller keeps the pointer it is returned
\* (pc "got"), to write to the entry.
TakeEntry(g) ==
    /\ ops.pending[g].pc = "test"
    /\ LET key   == ops.pending[g].key
           entry == ops.pending[g].entry
           purge == entry.ok /\ Expired(entry, now) /\ ~WithinStale(entry, now)
       IN  ops' = IF purge
                  THEN [ops EXCEPT !.pending[g] = [IdleOp EXCEPT !.pc = "purge", !.key = key]]
                  ELSE [ops EXCEPT !.pending[g] =
                                       IF entry.ok THEN [@ EXCEPT !.pc = "got"] ELSE IdleOp,
                                   !.last = [kind |-> "get", key |-> key,
                                             found |-> entry.ok, evicted |-> {}]]
    /\ UNCHANGED <<cfg, call, apiVersionChecked, mu, cache, now, evals, fn>>

\* The rest of MemoryCache.Get for an expired entry: c.Delete(key), under
\* the write lock, and the return of not-found.
MCGetPurge(g) ==
    /\ ops.pending[g].pc = "purge"
    /\ cache' = CacheDelete(cache, ops.pending[g].key)
    /\ ops' = [ops EXCEPT !.pending[g] = IdleOp,
                          !.last = [kind |-> "purge", key |-> ops.pending[g].key,
                                    found |-> FALSE,
                                    evicted |-> (DOMAIN cache.store) \ (DOMAIN cache'.store)]]
    /\ UNCHANGED <<cfg, call, apiVersionChecked, mu, now, evals, fn>>

\* MemoryCache.Delete
MCDelete(g, key) ==
    /\ ops.pending[g].pc = "idle"
    /\ cache' = CacheDelete(cache, key)
    /\ ops' = [ops EXCEPT !.last = [kind |-> "delete", key |-> key, found |-> FALSE,
                                    evicted |-> {}]]
    /\ UNCHANGED <<cfg, call, apiVersionChecked, mu, now, evals, fn>>

\* MemoryCache.Clear
MCClear(g) ==
    /\ ops.pending[g].pc = "idle"
    /\ cache' = EmptyCache
    /\ ops' = [ops EXCEPT !.last = [kind |-> "clear", key |-> "", found |-> FALSE,
                                    evicted |-> {}]]
    /\ UNCHANGED <<cfg, call, apiVersionChecked, mu, now, evals, fn>>

\* A second passes.
Tick(limit) ==
    /\ now < limit
    /\ MayPass(now + 1)
    /\ now' = now + 1
    /\ UNCHANGED <<cfg, call, apiVersionChecked, mu, cache, evals, ops, fn>>

\* A second passes while the request of call c is in flight, which it is
\* for `took` seconds at most.
Flight(c, took) ==
    /\ call[c].pc = "flight"
    /\ now < call[c].starts[Len(call[c].starts)] + took
    /\ Tick(Horizon)

\* ---- the MemoryCache statement by statement, under its RWMutex ----
\* In SpecLock a goroutine inside a call of the MemoryCache has, in
\* ops.pending, the call (op), its position in it (pc), its arguments (key,
\* entry), and its locals (entry: what Get read; oldest: the key the
\* eviction loop took off the order).  ops.rw is c.mu.

\* The goroutine moves to pc with the given locals.
At(g, next) == [ops EXCEPT !.pending[g] = next]

\* Set is called: the test of NoStore, before the lock is asked for.
SetCall(g, key, header) ==
    /\ ops.pending[g].pc = "idle"
    /\ LET entry == StoreEntryAt[header, now]
       IN  ops' = IF entry.cacheControl.noStore THEN ops
                  ELSE At(g, [IdleOp EXCEPT !.pc = "lock", !.op = "set",
                                            !.key = key, !.entry = entry])
    /\ UNCHANGED <<cfg, call, apiVersionChecked, mu, cache, now, evals, fn>>

\* Get, Delete, Clear or Size is called.
GetCall(g, key) ==
    /\ ops.pending[g].pc = "idle"
    /\ ops' = At(g, [IdleOp EXCEPT !.pc = "rlock", !.op = "get", !.key = key])
    /\ UNCHANGED <<cfg, call, apiVersionChecked, mu, cache, now, evals, fn>>

DeleteCall(g, key) ==
    /\ ops.pending[g].pc = "idle"
    /\ ops' = At(g, [IdleOp EXCEPT !.pc = "lock", !.op = "delete", !.key = key])
    /\ UNCHANGED <<cfg, call, apiVersionChecked, mu, cache, now, evals, fn>>

ClearCall(g) ==
    /\ ops.pending[g].pc = "idle"
    /\ ops' = At(g, [IdleOp EXCEPT !.pc = "lock", !.op = "clear"])
    /\ UNCHANGED <<cfg, call, apiVersionChecked, mu, cache, now, evals, fn>>

SizeCall(g) ==
    /\ ops.pending[g].pc = "idle"
    /\ ops' = At(g, [IdleOp EXCEPT !.pc = "rlock", !.op = "size"])
    /\ UNCHANGED <<cfg, call, apiVersionChecked, mu, cache, now, evals, fn>>

\* c.mu.RLock() without regard for a writer.
MuRLockAnyway(g) ==
    /\ ops.pending[g].pc = "rlock"
    /\ ops' = [ops EXCEPT !.pending[g].pc = "read",
                          !.rw.readers = ops.rw.readers \cup {g}]
    /\ UNCHANGED <<cfg, call, apiVersionChecked, mu, cache, now, evals, fn>>

\* c.mu.RLock(): granted when no goroutine holds the write lock.
MuRLock(g) ==
    /\ ops.pending[g].pc = "rlock"
    /\ ops.rw.writer = ""
    /\ ops' = [ops EXCEPT !.pending[g].pc = "read",
                          !.rw.readers = ops.rw.readers \cup {g}]
    /\ UNCHANGED <<cfg, call, apiVersionChecked, mu, cache, now, evals, fn>>

\* c.mu.Lock(): granted when no goroutine holds the lock, for reading or
\* for writing.  The goroutine goes on to the first statement of Set or of
\* Clear, or of Delete, be it called by itself or by Get.
MuLock(g) ==
    /\ ops.pending[g].pc = "lock"
    /\ ops.rw = FreeMu
    /\ ops' = [ops EXCEPT !.pending[g].pc =
                              CASE ops.pending[g].op = "set" -> "evict"
                                [] ops.pending[g].op = "clear" -> "clearmap"
                                [] OTHER -> "delmap",
                          !.rw.writer = g]
    /\ UNCHANGED <<cfg, call, apiVersionChecked, mu, cache, now, evals, fn>>

\* Get: entry, ok := c.store[key]
GetRead(g) ==
    /\ ops.pending[g].pc = "read"
    /\ ops.pending[g].op = "get"
    /\ ops' = [ops EXCEPT !.pending[g].pc = "runlock",
                          !.pending[g].entry =
                              IF ops.pending[g].key \in DOMAIN cache.store
                              THEN cache.store[ops.pending[g].key] ELSE NoEntry]
    /\ UNCHANGED <<cfg, call, apiVersionChecked, mu, cache, now, evals, fn>>

\* Size: len(c.store)
SizeRead(g) ==
    /\ ops.pending[g].pc = "read"
    /\ ops.pending[g].op = "size"
    /\ ops' = [ops EXCEPT !.pending[g].pc = "runlock"]
    /\ UNCHANGED <<cfg, call, apiVersionChecked, mu, cache, now, evals, fn>>

\* c.mu.RUnlock(): Size returns, Get goes on to look at what it read.
MuRUnlock(g) ==
    /\ ops.pending[g].pc = "runlock"
    /\ ops' = [ops EXCEPT !.pending[g] =
                              IF ops.pending[g].op = "get"
                              THEN [ops.pending[g] EXCEPT !.pc = "check"]
                              ELSE IdleOp,
                          !.rw.readers = ops.rw.readers \ {g}]
    /\ UNCHANGED <<cfg, call, apiVersionChecked, mu, cache, now, evals, fn>>

\* Get after RUnlock: not found, found (fresh, or stale within the
\* allowance), or c.Delete(key) for an expired entry.
GetCheck(g) ==
    /\ ops.pending[g].pc = "check"
    /\ LET entry == ops.pending[g].entry
       IN  ops' = IF /\ entry.ok
                     /\ Expired(entry, now)
                     /\ ~WithinStale(entry, now)
                  THEN At(g, [ops.pending[g] EXCEPT !.pc = "lock"])
                  ELSE At(g, IdleOp)
    /\ UNCHANGED <<cfg, call, apiVersionChecked, mu, cache, now, evals, fn>>

\* Set: the test of the eviction loop and, when it passes,
\* oldest := c.order[0]; c.order = c.order[1:]
SetEvict(g) ==
    /\ ops.pending[g].pc = "evict"
    /\ IF Cardinality(DOMAIN cache.store) >= cfg.maxEntries /\ Len(cache.order) > 0
       THEN /\ cache' = [cache EXCEPT !.order = Tail(cache.order)]
            /\ ops' = [ops EXCEPT !.pending[g].pc = "evictmap",
                                  !.pending[g].oldest = Head(cache.order)]
       ELSE /\ cache' = cache
            /\ ops' = [ops EXCEPT !.pending[g].pc = "append"]
    /\ UNCHANGED <<cfg, call, apiVersionChecked, mu, now, evals, fn>>

\* Set: delete(c.store, oldest), and back to the test of the loop.
SetEvictMap(g) ==
    /\ ops.pending[g].pc = "evictmap"
    /\ cache' = [cache EXCEPT !.store =
                    [k \in (DOMAIN cache.store) \ {ops.pending[g].oldest} |-> cache.store[k]]]
    /\ ops' = [ops EXCEPT !.pending[g].pc = "evict", !.pending[g].oldest = ""]
    /\ UNCHANGED <<cfg, call, apiVersionChecked, mu, now, evals, fn>>

\* Set: if the key is not in the map, c.order = append(c.order, key)
SetAppend(g) ==
    /\ ops.pending[g].pc = "append"
    /\ cache' = IF ops.pending[g].key \in DOMAIN cache.store THEN cache
                ELSE [cache EXCEPT !.order = Append(cache.order, ops.pending[g].key)]
    /\ ops' = [ops EXCEPT !.pending[g].pc = "store"]
    /\ UNCHANGED <<cfg, call, apiVersionChecked, mu, now, evals, fn>>

\* Set: c.store[key] = entry
SetStore(g) ==
    /\ ops.pending[g].pc = "store"
    /\ cache' = [cache EXCEPT !.store =
                    [k \in (DOMAIN cache.store) \cup {ops.pending[g].key} |->
                        IF k = ops.pending[g].key THEN ops.pending[g].entry
                        ELSE cache.store[k]]]
    /\ ops' = [ops EXCEPT !.pending =
                  [PendingAfterSet(ops.pending[g].key) EXCEPT ![g].pc = "unlock"]]
    /\ call' = CallsAfterSet(ops.pending[g].key)
    /\ UNCHANGED <<cfg, apiVersionChecked, mu, now, evals, fn>>

\* Delete: delete(c.store, key); removed is the entry this took out of the
\* map.
DeleteMap(g) ==
    /\ ops.pending[g].pc = "delmap"
    /\ cache' = [cache EXCEPT !.store =
                    [k \in (DOMAIN cache.store) \ {ops.pending[g].key} |-> cache.store[k]]]
    /\ ops' = [ops EXCEPT !.pending[g].pc = "delorder",
                          !.pending[g].removed =
                              IF ops.pending[g].key \in DOMAIN cache.store
                              THEN cache.store[ops.pending[g].key] ELSE NoEntry]
    /\ UNCHANGED <<cfg, call, apiVersionChecked, mu, now, evals, fn>>

\* Delete: the loop that cuts the first occurrence of the key out of c.order
DeleteOrder(g) ==
    /\ ops.pending[g].pc = "delorder"
    /\ cache' = [cache EXCEPT !.order = CacheDelete(cache, ops.pending[g].key).order]
    /\ ops' = [ops EXCEPT !.pending[g].pc = "unlock"]
    /\ UNCHANGED <<cfg, call, apiVersionChecked, mu, now, evals, fn>>

\* Clear: c.store = make(map[string]*CacheEntry)
ClearMap(g) ==
    /\ ops.pending[g].pc = "clearmap"
    /\ cache' = [cache EXCEPT !.store = EmptyCache.store]
    /\ ops' = [ops EXCEPT !.pending[g].pc = "clearorder"]
    /\ UNCHANGED <<cfg, call, apiVersionChecked, mu, now, evals, fn>>

\* Clear: c.order = make([]string, 0, c.maxEntries)
ClearOrder(g) ==
    /\ ops.pending[g].pc = "clearorder"
    /\ cache' = [cache EXCEPT !.order = EmptyCache.order]
    /\ ops' = [ops EXCEPT !.pending[g].pc = "unlock"]
    /\ UNCHANGED <<cfg, call, apiVersionChecked, mu, now, evals, fn>>

\* The deferred c.mu.Unlock(), and the return.
MuUnlock(g) ==
    /\ ops.pending[g].pc = "unlock"
    /\ ops' = [ops EXCEPT !.pending[g] = IdleOp, !.rw.writer = ""]
    /\ UNCHANGED <<cfg, call, apiVersionChecked, mu, cache, now, evals, fn>>

\* ---- what callers do with the objects they are handed ----
\* The caller of a finished call writes a field of the result object it
\* passed in (GetUsage's &resp), with no lock held.  After a miss that
\* object is the Value of the entry the call stored, CreateCacheEntry(result,
\* ...) keeping the pointer, unless the Value has been replaced since; after
\* a hit it is a fresh decoding of the cached value.
MutateResult(c, race) ==
    /\ call[c].pc = "done"
    /\ call[c].result = Success
    /\ call[c].hasResult
    /\ call[c].value # "mutated"
    /\ LET me == call[c]
           shares == ~me.hit /\ me.wrote.ok /\ me.wrote.ref
       IN  \A d \in Calls :
               race[d] # "" => (shares /\ Marshals(d, me.key, me.wrote.id))
    /\ LET me == call[c]
           shares == ~me.hit /\ me.wrote.ok /\ me.wrote.ref
           after == IF shares
                    THEN CallsAfterWrite(me.key, me.wrote.id, "mutated", TRUE, race)
                    ELSE call
       IN  /\ call' = [after EXCEPT ![c].value = "mutated"]
           /\ cache' = IF shares
                       THEN CacheAfterWrite(me.key, me.wrote.id, "mutated", TRUE)
                       ELSE cache
           /\ ops' = IF shares
                     THEN [ops EXCEPT !.pending =
                              PendingAfterWrite(me.key, me.wrote.id, "mutated", TRUE)]
                     ELSE ops
    /\ UNCHANGED <<cfg, apiVersionChecked, mu, now, evals, fn>>

\* The application, which MemoryCache.Get has returned an entry, assigns the
\* entry's Value, with no lock held: entry.Value = x.
MutateEntry(g, race) ==
    /\ ops.pending[g].pc = "got"
    /\ \A d \in Calls :
           race[d] # "" => Marshals(d, ops.pending[g].key, ops.pending[g].entry.id)
    /\ LET key == ops.pending[g].key
           id  == ops.pending[g].entry.id
       IN  /\ call' = CallsAfterWrite(key, id, "replaced", FALSE, race)
           /\ cache' = CacheAfterWrite(key, id, "replaced", FALSE)
           /\ ops' = [ops EXCEPT !.pending =
                         [PendingAfterWrite(key, id, "replaced", FALSE) EXCEPT ![g] = IdleOp]]
    /\ UNCHANGED <<cfg, apiVersionChecked, mu, now, evals, fn>>

\* ---- the pure functions, called on their own ----
\* CreateCacheEntry(value, cacheControlHeader) at the present time.
CallCreateCacheEntry(value, header) ==
    /\ fn' = [op |-> "CreateCacheEntry", args |-> <<value, header, now>>,
              out |-> CreateCacheEntry(value, header, now)]
    /\ UNCHANGED <<cfg, call, apiVersionChecked, mu, cache, now, evals, ops>>

\* The header made of the tokens, separated by commas.
RECURSIVE Join(_)
Join(tokens) ==
    IF tokens = <<>> THEN ""
    ELSE IF Len(tokens) = 1 THEN tokens[1]
    ELSE tokens[1] \o "," \o Join(Tail(tokens))

\* The tokens headers are made of: each directive, two values of max-age, a
\* value that is no integer, a value with a sign, a token that is no
\* directive, a token in upper case and one between spaces.
PureTokens ==
    {"no-store", "no-cache", "\fPrivate ", "max-age=1", "MAX-AGE=2", "max-age=abc",
     "max-age=-1", "stale-while-revalidate=3", "immutable"}
TokenLists == UNION {[1..n -> PureTokens] : n \in 0..MaxTokens}
TokenHeaders == {Join(tokens) : tokens \in TokenLists}

\* ParseCacheControl of each of these headers.
ParsedHeader == [header \in TokenHeaders |-> ParseCacheControl(header)]

\* ParseCacheControl(header)
CallParseCacheControl(header) ==
    /\ fn' = [op |-> "ParseCacheControl", args |-> <<header>>,
              out |-> ParsedHeader[header]]
    /\ UNCHANGED <<cfg, call, apiVersionChecked, mu, cache, now, evals, ops>>

\* The version strings CompareVersions is given: well-formed ones that differ
\* in each place, one with a pre-release suffix, strings the pattern does not
\* match, and two whose major is at and above the largest int.
PureVersions ==
    {"", "invalid", "0.0.0", "0.5.0", "1.0.0", "1.2.3", "1.2.3-beta", "1.2.4",
     "1.10.0", "2.0.0", "10.0.0", "9223372036854775807.0.0",
     "9223372036854775808.0.0"}

\* CompareVersions of each two of them.
ComparedVersions == [a \in PureVersions, b \in PureVersions |-> CompareVersions(a, b)]

\* CompareVersions(a, b)
CallCompareVersions(a, b) ==
    /\ fn' = [op |-> "CompareVersions", args |-> <<a, b>>,
              out |-> ComparedVersions[a, b]]
    /\ UNCHANGED <<cfg, call, apiVersionChecked, mu, cache, now, evals, ops>>

\* The requests GenerateCacheKey is given: methods in several letter cases;
\* methods with a letter outside ASCII, in UTF-8: g\u00E9t and G\u00C9T,
\* g\u00FFt and G\u0178T, \u00B5, po\u017Ft, \u0131, \u1E61, \u1F80,
\* U+10428, \u00DF and \u212A; a method that is not UTF-8, g 0xFF t;
\* URLs that differ in path and in query; and the hashes of two API keys.
PureMethods ==
    {"GET", "get", "Get", "POST", "DELETE",
     "gÃ©t", "GÃT", "gÃ¿t", "GÅ¸T", "Âµ", "gÿt",
     "poÅ¿t", "Ä±", "á¹¡", "á¾",
     "ð¨", "Ã", "âª"}
PureURLs ==
    {"https://api.refyne.uk/api/v1/usage", "https://api.refyne.uk/api/v1/jobs",
     "https://api.refyne.uk/api/v1/jobs?limit=1",
     "https://api.refyne.uk/api/v1/jobs?limit=2"}
PureHashes == {"2z", "0"}

\* GenerateCacheKey of each of them.
CacheKeyOf ==
    [method \in PureMethods, urlStr \in PureURLs, authHash \in PureHashes |->
        GenerateCacheKey(method, urlStr, authHash)]

\* GenerateCacheKey(method, urlStr, authHash)
CallGenerateCacheKey(method, urlStr, authHash) ==
    /\ fn' = [op |-> "GenerateCacheKey", args |-> <<method, urlStr, authHash>>,
              out |-> CacheKeyOf[method, urlStr, authHash]]
    /\ UNCHANGED <<cfg, call, apiVersionChecked, mu, cache, now, evals, ops>>

\* calculateBackoff(attempt)
CallBackoff(attempt) ==
    /\ fn' = [op |-> "calculateBackoff", args |-> <<attempt>>,
              out |-> BackoffOf[attempt]]
    /\ UNCHANGED <<cfg, call, apiVersionChecked, mu, cache, now, evals, ops>>

\* ------------------------------------------------- specifications ---
\* SpecRetry: one logical call, every outcome the server and the network
\* can produce on each attempt.  The clock runs while a request is in flight
\* and between the steps, up to RetryHorizon, and jumps with each sleep.
RetryConfigs == {k \in Configs : ~k.cacheOn}

RetryHorizon == 1

InitRetry == InitWith(RetryConfigs)

NextRetry ==
    \/ \E kind \in {k \in CallKinds : ~k.skipCache /\ k.method # "GET"} :
          StartCall(1, kind, "/api/v1/schemas")
    \/ \E failure \in BuildFailures : Send(1, failure)
    \/ \E out \in Outcomes : Do(1, out)
    \/ Wake(1)
    \/ Lock(1)
    \/ \E v \in {"", "0.5.0"} : CheckVersion(1, v)
    \/ MarkChecked(1)
    \/ \E body \in {PlainBody, RawBody, EmptyBody} \cup ErrorBodies, cc \in {""},
          buffered \in BOOLEAN :
          Finish(1, body, cc, buffered)
    \/ Tick(RetryHorizon)

SpecRetry == InitRetry /\ [][NextRetry]_vars

\* SpecVersion: NumCalls logical calls running concurrently against the one
\* client, racing for its mutex and its one-shot flag.  The client is built
\* WithMaxRetries(0) and WithCacheEnabled(false) and the calls are writes, so
\* no call sleeps and the clock plays no part.
VersionConfigs == {k \in Configs : k.maxRetries = 0 /\ ~k.cacheOn}

InitVersion == InitWith(VersionConfigs)

NextVersion ==
    \/ \E c \in Calls, kind \in {k \in CallKinds : k.method = "POST"} :
          StartCall(c, kind, "/api/v1/schemas")
    \/ \E c \in Calls : Send(c, "")
    \/ \E c \in Calls, out \in {NetErr, Response(200, ""), Response(404, "")} : Do(c, out)
    \/ \E c \in Calls : Lock(c)
    \/ \E c \in Calls, v \in APIVersions : CheckVersion(c, v)
    \/ \E c \in Calls : MarkChecked(c)
    \/ \E c \in Calls, buffered \in BOOLEAN : Finish(c, PlainBody, "", buffered)

SpecVersion == InitVersion /\ [][NextVersion]_vars

\* SpecMutex: NumCalls logical calls on the one client, each started at any
\* time (alongside another, or after it has returned), with retries and the
\* sleeps between them.  A goroutine that can run does: one that waits in
\* c.mu.Lock() while the mutex stays free takes it, and one that holds it
\* goes on.  The client is built WithMaxRetries(1).  The network fails
\* requests of the first two callers only.
MutexConfigs == {k \in Configs : ~k.cacheOn /\ k.maxRetries = 1}

InitMutex == InitWith(MutexConfigs)

Unlucky == {1, 2}

NextMutex ==
    \/ \E c \in Calls, kind \in {k \in CallKinds : k.method = "POST"} :
          StartCall(c, kind, "/api/v1/schemas")
    \/ \E c \in Calls : Send(c, "")
    \/ \E c \in Calls : Do(c, Response(200, ""))
    \/ \E c \in Calls \cap Unlucky : Do(c, NetErr)
    \/ \E c \in Calls : Wake(c)
    \/ \E c \in Calls : Lock(c)
    \/ \E c \in Calls, v \in {"", "0.5.0", "2.0.0"} : CheckVersion(c, v)
    \/ \E c \in Calls : MarkChecked(c)
    \/ \E c \in Calls : Finish(c, PlainBody, "", TRUE)

SpecMutex ==
    /\ InitMutex
    /\ [][NextMutex]_vars
    /\ \A c \in Calls :
          /\ WF_vars(Lock(c))
          /\ WF_vars(\E v \in {"", "0.5.0", "2.0.0"} : CheckVersion(c, v))
          /\ WF_vars(MarkChecked(c))

\* SpecCache: one caller making call after call against a client with its
\* MemoryCache, while time passes and entries expire.  The client is built
\* WithMaxRetries(0), so the clock moves by Tick alone.
CacheConfigs == {k \in Configs : k.maxRetries = 0}

InitCache == InitWith(CacheConfigs)

NextCache ==
    \/ \E kind \in CallKinds, path \in Paths :
          /\ kind.method # "GET" => path = "/api/v1/schemas"
          /\ StartCall(1, kind, path)
    \/ Lookup(1)
    \/ Purge(1)
    \/ \E failure \in {"", RequestErr} : Send(1, failure)
    \/ \E out \in {NetErr, Response(200, ""), Response(404, "")} : Do(1, out)
    \/ Lock(1)
    \/ \E v \in APIVersions : CheckVersion(1, v)
    \/ MarkChecked(1)
    \/ \E body \in {JSONBody("v1"), JSONBody("v2"), RawBody},
          cc \in CacheControls, buffered \in BOOLEAN :
          Finish(1, body, cc, buffered)
    \/ Store(1)
    \/ Return(1)
    \/ Tick(MaxTime)

SpecCache == InitCache /\ [][NextCache]_vars

\* SpecTimeout: one logical call on a client built WithTimeout(1..MaxTimeout
\* seconds), whose attempts take time and whose caller may cancel the
\* context it passed.
TimeoutConfigs ==
    { [k EXCEPT !.timeout = t] :
          k \in {k \in Configs : ~k.cacheOn},
          t \in 1..MaxTimeout }

InitTimeout == InitWith(TimeoutConfigs)

NextTimeout ==
    \/ \E kind \in {k \in CallKinds : k.method = "POST"} :
          StartCall(1, kind, "/api/v1/schemas")
    \/ Send(1, "")
    \/ \E out \in {NetErr, Response(200, ""), Response(429, ""), Response(503, "")} :
          Do(1, out)
    \/ Flight(1, MaxTook)
    \/ Wake(1)
    \/ Cancel(1)
    \/ Lock(1)
    \/ CheckVersion(1, "")
    \/ MarkChecked(1)
    \/ \E buffered \in BOOLEAN : Finish(1, PlainBody, "", buffered)
    \/ Tick(MaxTime)

SpecTimeout == InitTimeout /\ [][NextTimeout]_vars

\* SpecShared: one caller repeating a cached GET against a client whose
\* cache the application also writes to, with responses that allow serving
\* stale entries.
SharedConfigs ==
    {k \in Configs : k.maxRetries = 0 /\ k.cacheOn}

InitShared == InitWith(SharedConfigs)

UsageKey == GenerateCacheKey("GET", DefaultBaseURL \o "/api/v1/usage", "2z")

\* The Cache-Control headers of the responses of SpecShared: one without an
\* allowance, one with an allowance of two seconds, and one with the largest
\* allowance an int holds.
SharedHeaders ==
    {"max-age=1", "max-age=0, stale-while-revalidate=2",
     "max-age=0, stale-while-revalidate=9223372036854775807"}

NextShared ==
    \/ \E kind \in {k \in CallKinds : k.method = "GET" /\ ~k.skipCache} :
          StartCall(1, kind, "/api/v1/usage")
    \/ Lookup(1)
    \/ Purge(1)
    \/ Send(1, "")
    \/ \E out \in {NetErr, Response(200, ""), Response(404, "")} : Do(1, out)
    \/ Lock(1)
    \/ CheckVersion(1, "")
    \/ MarkChecked(1)
    \/ \E body \in {JSONBody("v1"), JSONBody("v2")},
          cc \in SharedHeaders, buffered \in BOOLEAN :
          Finish(1, body, cc, buffered)
    \/ Store(1)
    \/ Return(1)
    \/ \E value \in {"unencodable", "mismatched"} : Seed(UsageKey, value)
    \/ Tick(MaxTime)

SpecShared == InitShared /\ [][NextShared]_vars

\* SpecFrame: one caller making calls of every kind on one path, against a
\* client built with caching enabled or disabled (WithCacheEnabled) on a
\* cache the application also writes to (WithCache), while time passes.
FrameConfigs == {k \in Configs : k.maxRetries = 0}

InitFrame == InitWith(FrameConfigs)

NextFrame ==
    \/ \E kind \in CallKinds : StartCall(1, kind, "/api/v1/usage")
    \/ Lookup(1)
    \/ Purge(1)
    \/ Send(1, "")
    \/ \E out \in {NetErr, Response(200, ""), Response(404, "")} : Do(1, out)
    \/ Lock(1)
    \/ CheckVersion(1, "")
    \/ MarkChecked(1)
    \/ \E cc \in {"max-age=1", "no-store"}, buffered \in BOOLEAN :
          Finish(1, PlainBody, cc, buffered)
    \/ Store(1)
    \/ Return(1)
    \/ Seed(UsageKey, "v2")
    \/ Tick(MaxTime)

SpecFrame == InitFrame /\ [][NextFrame]_vars

\* SpecWrite: one goroutine that reads the schemas with cached GETs (call 2)
\* and writes them with calls of other methods (call 1), one call after the
\* other; it keeps the result of its last write while it reads.
InitWrite == InitWith(SharedConfigs)

NextWrite ==
    \/ \E kind \in {k \in CallKinds : k.method # "GET"} :
          /\ call[2].pc = "idle"
          /\ StartCall(1, kind, "/api/v1/schemas")
    \/ \E kind \in {k \in CallKinds : k.method = "GET" /\ ~k.skipCache} :
          /\ call[1].pc \in {"idle", "done"}
          /\ StartCall(2, kind, "/api/v1/schemas")
    \/ Lookup(2)
    \/ Purge(2)
    \/ \E c \in 1..2 : Send(c, "")
    \/ \E c \in 1..2, out \in {NetErr, Response(200, ""), Response(404, "")} : Do(c, out)
    \/ \E c \in 1..2 : Lock(c)
    \/ \E c \in 1..2 : CheckVersion(c, "")
    \/ \E c \in 1..2 : MarkChecked(c)
    \/ \E c \in 1..2, body \in {JSONBody("v1"), JSONBody("v2")}, cc \in {"", "max-age=1"} :
          Finish(c, body, cc, TRUE)
    \/ Store(2)
    \/ call[2].pc = "idle" /\ Return(1)
    \/ Return(2)
    \/ Tick(MaxTime)

SpecWrite == InitWrite /\ [][NextWrite]_vars

\* SpecDirectives: one caller making cached GETs of the usage, the server
\* answering with each combination of directives, while time passes.
DirectiveHeaders ==
    {"", "private", "no-cache", "max-age=1", "private, max-age=1", "no-cache, max-age=1",
     "no-cache, private, max-age=1", "no-store, private, max-age=1"}

InitDirectives == InitWith(SharedConfigs)

NextDirectives ==
    \/ \E kind \in {k \in CallKinds : k.method = "GET" /\ ~k.skipCache} :
          StartCall(1, kind, "/api/v1/usage")
    \/ Lookup(1)
    \/ Purge(1)
    \/ Send(1, "")
    \/ \E out \in {NetErr, Response(200, "")} : Do(1, out)
    \/ Lock(1)
    \/ CheckVersion(1, "")
    \/ MarkChecked(1)
    \/ \E body \in {JSONBody("v1"), JSONBody("v2")}, cc \in DirectiveHeaders :
          Finish(1, body, cc, TRUE)
    \/ Store(1)
    \/ Return(1)
    \/ Tick(MaxTime)

SpecDirectives == InitDirectives /\ [][NextDirectives]_vars

\* SpecTenants: clients for several API keys, built one after another around
\* one cache, each making cached GETs of the usage of its own account; the
\* server answers a request with the account of the key that signed it.
APIKeys == {"k", "Aa", "BB", "sk_live_1"}
AccountBody == [apiKey \in APIKeys |-> JSONBody(apiKey)]

InitTenants == InitWith(SharedConfigs)

NextTenants ==
    \/ \E apiKey \in APIKeys : NewClient(apiKey)
    \/ \E kind \in {k \in CallKinds : k.method = "GET" /\ ~k.skipCache} :
          StartCall(1, kind, "/api/v1/usage")
    \/ Lookup(1)
    \/ Purge(1)
    \/ Send(1, "")
    \/ \E out \in {NetErr, Response(200, "")} : Do(1, out)
    \/ Lock(1)
    \/ CheckVersion(1, "")
    \/ MarkChecked(1)
    \/ Finish(1, AccountBody[cfg.apiKey], "max-age=1", TRUE)
    \/ Store(1)
    \/ Return(1)
    \/ Tick(MaxTime)

SpecTenants == InitTenants /\ [][NextTenants]_vars

\* SpecStore: one MemoryCache of capacity 1..MaxCapacity shared by two
\* goroutines while time passes.  The reader calls Get, step by step; the
\* writer calls Set, Delete and Clear, each of which holds the write lock
\* from first to last, at any point of the reader's Get.
StoreConfigs ==
    { [k EXCEPT !.maxEntries = n] : k \in SharedConfigs, n \in 1..MaxCapacity }

InitStore == InitWith(StoreConfigs)

StoreKeys == {"GET:/a:2z", "GET:/b:2z", "GET:/c:2z"}
Reader == "g1"
Writer == "g2"

NextStore ==
    \/ \E key \in StoreKeys, header \in StoreHeaders : MCSet(Writer, key, header)
    \/ \E key \in StoreKeys : MCGetRead(Reader, key)
    \/ MCGetTest(Reader)
    \/ MCGetPurge(Reader)
    \/ \E key \in StoreKeys : MCDelete(Writer, key)
    \/ MCClear(Writer)
    \/ Tick(MaxTime)

SpecStore == InitStore /\ [][NextStore]_vars

\* SpecLock: the goroutines run Set, Get, Delete, Clear and Size statement
\* by statement on one MemoryCache, each statement a step, while time
\* passes.
LockHeaders == {"max-age=1", "no-store"}

NextLock ==
    \/ \E g \in Goroutines, key \in StoreKeys, header \in LockHeaders : SetCall(g, key, header)
    \/ \E g \in Goroutines, key \in StoreKeys : GetCall(g, key)
    \/ \E g \in Goroutines, key \in StoreKeys : DeleteCall(g, key)
    \/ \E g \in Goroutines : ClearCall(g)
    \/ \E g \in Goroutines : SizeCall(g)
    \/ \E g \in Goroutines : MuRLock(g)
    \/ \E g \in Goroutines : MuLock(g)
    \/ \E g \in Goroutines : GetRead(g)
    \/ \E g \in Goroutines : SizeRead(g)
    \/ \E g \in Goroutines : MuRUnlock(g)
    \/ \E g \in Goroutines : GetCheck(g)
    \/ \E g \in Goroutines : SetEvict(g)
    \/ \E g \in Goroutines : SetEvictMap(g)
    \/ \E g \in Goroutines : SetAppend(g)
    \/ \E g \in Goroutines : SetStore(g)
    \/ \E g \in Goroutines : DeleteMap(g)
    \/ \E g \in Goroutines : DeleteOrder(g)
    \/ \E g \in Goroutines : ClearMap(g)
    \/ \E g \in Goroutines : ClearOrder(g)
    \/ \E g \in Goroutines : MuUnlock(g)
    \/ Tick(MaxTime)

SpecLock == InitStore /\ [][NextLock]_vars

\* SpecAlias: the callers of GetUsage, NumCalls goroutines making call after
\* call on the one client, each of which may write to the result it was
\* handed; and an application goroutine that shares the cache, gets the
\* entry of the usage from it and writes to it.
Application == "g1"

\* The seconds the clock runs in SpecAlias: an entry made at 0 with
\* max-age=1 is past its expiry at 2.
AliasHorizon == 2

NextAlias ==
    \/ \E c \in Calls,
          kind \in {k \in CallKinds : k.method = "GET" /\ ~k.skipCache /\ k.hasResult} :
          StartCall(c, kind, "/api/v1/usage")
    \/ \E c \in Calls : Lookup(c)
    \/ \E c \in Calls : Purge(c)
    \/ \E c \in Calls : Send(c, "")
    \/ \E c \in Calls : Do(c, Response(200, ""))
    \/ \E c \in Calls : Lock(c)
    \/ \E c \in Calls : CheckVersion(c, "")
    \/ \E c \in Calls : MarkChecked(c)
    \/ \E c \in Calls : Finish(c, JSONBody("v1"), "max-age=1", TRUE)
    \/ \E c \in Calls : Store(c)
    \/ \E c \in Calls : Return(c)
    \/ \E c \in Calls, race \in [Calls -> Races] : MutateResult(c, race)
    \/ MCGetRead(Application, UsageKey)
    \/ TakeEntry(Application)
    \/ MCGetPurge(Application)
    \/ \E race \in [Calls -> Races] : MutateEntry(Application, race)
    \/ Tick(AliasHorizon)

SpecAlias == InitShared /\ [][NextAlias]_vars

\* SpecPure: the exported pure functions, called with arguments from small
\* sets, in any order, while time passes.
InitPure == InitWith(SharedConfigs)

PureValues == {"v1", "v2"}
PureHeaders ==
    {"", "no-store", "private", "no-cache", "public", "max-age=3600", "max-age=0",
     "max-age=abc", "no-store, max-age=60", "private, max-age=60",
     "MAX-AGE=5 , Stale-While-Revalidate=7", "max-age=-5",
     "max-age=1, stale-while-revalidate=-1", "max-age=9223372036854775807",
     "max-age=9223372036854775808", "max-age=60,no-store\f",
     "Â max-age=60Â", "max-age=60 "}

NextPure ==
    \/ \E method \in PureMethods, urlStr \in PureURLs, authHash \in PureHashes :
          CallGenerateCacheKey(method, urlStr, authHash)
    \/ \E a \in PureVersions, b \in PureVersions : CallCompareVersions(a, b)
    \/ \E header \in TokenHeaders : CallParseCacheControl(header)
    \/ \E value \in PureValues, header \in PureHeaders : CallCreateCacheEntry(value, header)
    \/ \E attempt \in 1..MaxAttempt : CallBackoff(attempt)
    \/ Tick(MaxTime)

SpecPure == InitPure /\ [][NextPure]_vars

\* ------------------------------------------- the retry loop, checked ---
\* The properties below are stated of call 1 under SpecRetry.
\* A transient outcome: a transport error, HTTP 429, or HTTP >= 500.
Transient(out) == out.err \/ out.status = 429 \/ out.status >= 500

\* The call is past its transport attempts: executeWithRetry has returned.
PastTransport(me) == me.pc \in {"lock", "check", "mark", "read", "store", "done"}

\* The request of the call was built: executeWithRetry returned neither the
\* error of json.Marshal nor that of http.NewRequestWithContext.
Built(me) == me.result.message \notin {MarshalErr, RequestErr}

\* C1: a call makes exactly min(k, maxRetries+1) transport attempts, k the
\* index of the first attempt whose outcome is not transient: every attempt
\* is counted once, never more than maxRetries+1 are made, every outcome
\* before the last is transient, the call goes on to another attempt only
\* after a transient outcome with attempts left, and it leaves the loop only
\* on a non-transient outcome or on attempt maxRetries+1.  A call whose
\* request could not be built has no attempt and no outcome.
C1_AttemptCount ==
    LET me == call[1]
        n  == Len(me.outs)
        built == Built(me)
    IN  /\ me.sent = IF me.pc = "flight" THEN n + 1 ELSE n
        /\ me.sent <= cfg.maxRetries + 1
        /\ \A k \in 1..(n - 1) : Transient(me.outs[k])
        /\ (me.pc \in {"sleep", "send", "flight"} /\ n > 0) =>
               (Transient(me.outs[n]) /\ n <= cfg.maxRetries)
        /\ me.pc \in {"send", "flight"} => me.attempt = n + 1
        /\ (PastTransport(me) /\ built) =>
               (n >= 1 /\ (n = cfg.maxRetries + 1 \/ ~Transient(me.outs[n])))
        /\ ~built => (n = 0 /\ me.pc = "done")

\* A 404 on the second of three allowed attempts ended the call there.
C1_Witness ==
    /\ cfg.maxRetries = 2
    /\ call[1].pc = "done"
    /\ call[1].sent = 2
    /\ call[1].outs[1].err
    /\ call[1].outs[2].status = 404
    /\ call[1].result.kind = "NotFoundError"

\* The last outcome of the call's transport attempts is a response with a
\* status below 400.
EndsBelow400(me) ==
    /\ Len(me.outs) >= 1
    /\ ~me.outs[Len(me.outs)].err
    /\ me.outs[Len(me.outs)].status < 400

\* C2: transient failures on earlier attempts are never surfaced when a
\* later attempt succeeds: a call whose attempt j answers with a status
\* below 400 after j-1 transient failures returns success after exactly j
\* attempts, with the body decoded into the result.  The claim is read in its
\* favour: a response of an incompatible API version, and a body that is not
\* JSON, are not counted as a later attempt that succeeded.
C2_RetryThenSuccess ==
    LET me == call[1]
    IN  (me.pc = "done" /\ EndsBelow400(me)) =>
            /\ me.sent = Len(me.outs)
            /\ \A k \in 1..(Len(me.outs) - 1) : Transient(me.outs[k])
            /\ \/ me.result.kind = "ok" /\ me.value = me.body.val
               \/ me.result.kind = "UnsupportedAPIVersionError"
               \/ /\ me.result = Failure("wrapError", 0, "failed to parse response")
                  /\ ~me.body.json
                  /\ ~me.body.empty

\* 429 then 200 with a JSON body and a result to decode into, two attempts,
\* and the call returns the error of a body read on a cancelled context.
C2_Failure ==
    /\ call[1].pc = "done"
    /\ call[1].sent = 2
    /\ call[1].outs[1].status = 429
    /\ call[1].outs[2].status = 200
    /\ call[1].hasResult
    /\ call[1].result = Failure("wrapError", 0, "failed to read response")

\* The seconds of the wait the claim names after an outcome of attempt k,
\* written out: the Retry-After seconds after a 429 (1 when the header is
\* absent or is not a number an int holds), else 1, 2, 4, 8, ... seconds
\* doubling with the attempt.  Never stands for the 9223372037 seconds that
\* end beyond the horizon of the model's clock.
ClaimedWait(k, out) ==
    IF ~out.err /\ out.status = 429
    THEN CASE out.retryAfter = "0" -> 0
           [] out.retryAfter = "2" -> 2
           [] out.retryAfter = "9223372037" -> Never
           [] OTHER -> 1
    ELSE CASE k = 1 -> 1
           [] k = 2 -> 2
           [] k = 3 -> 4
           [] k = 4 -> 8
           [] OTHER -> 16

\* C3: between attempt k and attempt k+1 of a call there is exactly one
\* wait, of the Retry-After seconds after a 429 (1 second if the header is
\* absent or non-numeric, 0 meaning none, any other number verbatim) and of
\* backoff(k) after a transport error or a status >= 500, and attempt k+1
\* does not start before the wait has elapsed.
C3_WaitBetweenAttempts ==
    LET me == call[1]
        n  == Len(me.outs)
        retries == IF me.pc \in {"sleep", "send", "flight"} \/ n = 0 THEN n ELSE n - 1
        Claimed(k) == ClaimedWait(k, me.outs[k])
        Elapsed(k, t) == Claimed(k) # Never /\ t >= me.ends[k] + Claimed(k)
    IN  /\ Len(me.waits) = retries
        /\ Len(me.starts) = me.sent
        /\ Len(me.ends) = n
        /\ \A k \in 1..Len(me.waits) :
              /\ SleepSeconds(me.waits[k]) = Claimed(k)
              /\ Claimed(k) # Never => me.waits[k] = Seconds(Claimed(k))
        /\ \A k \in 1..(Len(me.starts) - 1) : Elapsed(k, me.starts[k + 1])
        /\ (me.pc = "send" /\ n > 0) => Elapsed(n, now)

\* A 429 with Retry-After: 9223372037 was answered by a sleep of a negative
\* duration, and the second attempt is due in the second of the first.
C3_Failure ==
    /\ call[1].pc = "send"
    /\ call[1].outs = <<Response(429, "9223372037")>>
    /\ Negative64(call[1].waits[1])
    /\ call[1].attempt = 2
    /\ now = call[1].ends[1]

\* Every allowed attempt of the call was made and each ended in a
\* transient failure.
Exhausted(me) ==
    /\ Len(me.outs) = cfg.maxRetries + 1
    /\ \A k \in 1..Len(me.outs) : Transient(me.outs[k])

\* C4: when all maxRetries+1 attempts end in transient failures, the error
\* returned is determined by the last attempt alone: a typed Network error
\* if it was a transport failure, a RateLimit error if its status was 429,
\* the generic API error carrying the status if it was >= 500.
C4_ExhaustedError ==
    LET me   == call[1]
        last == me.outs[Len(me.outs)]
    IN  (me.pc = "done" /\ Exhausted(me)) =>
            IF last.err THEN me.result.kind = "NetworkError"
            ELSE IF last.status = 429
            THEN me.result.kind = "RateLimitError" /\ me.result.status = 429
            ELSE me.result.kind = "RefyneError" /\ me.result.status = last.status

\* With no retries allowed, the one attempt failed in the transport and the
\* call returned the untyped error fmt.Errorf built.
C4_Failure ==
    /\ cfg.maxRetries = 0
    /\ call[1].pc = "done"
    /\ call[1].outs = <<NetErr>>
    /\ call[1].result = Failure("wrapError", 0, "network error")

\* The error variant the claim names for a status >= 400.
ClaimedVariant(status) ==
    CASE status = 400 -> "ValidationError"
      [] status = 401 -> "AuthenticationError"
      [] status = 403 -> "ForbiddenError"
      [] status = 404 -> "NotFoundError"
      [] status = 429 -> "RateLimitError"
      [] OTHER -> "RefyneError"

\* C5: for every terminal response with status >= 400 the error variant is
\* a function of the status alone: 400 gives Validation with the body's
\* field errors, 401 Authentication, 403 Forbidden, 404 NotFound, 429
\* RateLimit, every other status the generic API error with the status and
\* the body's detail.
C5_VariantByStatus ==
    LET me == call[1]
    IN  (me.pc = "done" /\ me.status >= 400) =>
            /\ me.result.kind = ClaimedVariant(me.status)
            /\ me.result.status = me.status
            /\ me.status = 400 => me.result.errors = me.body.errors
            /\ me.result.kind = "RefyneError" => me.result.detail = me.body.detail

\* A 404 was the terminal response, and the call returned the error of a
\* body read on a cancelled context instead of NotFound.
C5_Failure ==
    /\ call[1].pc = "done"
    /\ call[1].status = 404
    /\ call[1].outs = <<Response(404, "")>>
    /\ call[1].result = Failure("wrapError", 0, "failed to read response")

\* The retryAfter the claim gives a RateLimit error, by Retry-After header:
\* the number of the header, 9223372037 in the bytes of an int, or 60 for
\* a header that is missing or is not a number an int holds.
ClaimedRetryAfter(header) ==
    CASE header = "0" -> Int64(0)
      [] header = "2" -> Int64(2)
      [] header = "9223372037" -> <<5, 125, 193, 37, 2, 0, 0, 0>>
      [] OTHER -> Int64(60)

\* The wait scheduled for a 429 whose Retry-After is missing or no number.
DefaultWait == Seconds(1)

\* C25: a RateLimit error is returned for a final response of status 429 and
\* carries the number in that response's Retry-After header, or 60 if the
\* header is missing or not a number; the wait scheduled after an earlier 429
\* with such a header is 1 second, not 60.
C25_RetryAfterReported ==
    LET me == call[1]
        n  == Len(me.outs)
    IN  /\ (me.pc = "done" /\ me.result.kind = "RateLimitError") =>
              /\ n > 0
              /\ me.outs[n].status = 429
              /\ me.result.retryAfter = ClaimedRetryAfter(me.outs[n].retryAfter)
        /\ \A k \in 1..Len(me.waits) :
              (me.outs[k].status = 429 /\ me.outs[k].retryAfter \in {"", "x"}) =>
                  me.waits[k] = DefaultWait

\* Every attempt was answered 429 without Retry-After: each retry was
\* scheduled 1 second later, and the error returned reports 60.
C25_Witness ==
    /\ call[1].pc = "done"
    /\ Exhausted(call[1])
    /\ Len(call[1].waits) >= 1
    /\ \A k \in 1..Len(call[1].outs) : call[1].outs[k] = Response(429, "")
    /\ \A k \in 1..Len(call[1].waits) : call[1].waits[k] = DefaultWait
    /\ call[1].result.kind = "RateLimitError"
    /\ call[1].result.retryAfter = Int64(60)

\* ------------------------------------- the pipeline's cache, checked ---
\* The properties below are stated of the caller of SpecCache.
\* The Get that read the entry returns it at time t: there is one, and it
\* has not expired or is within its stale-while-revalidate allowance.
GetReturns(entry, t) ==
    entry.ok /\ ~(Expired(entry, t) /\ ~WithinStale(entry, t))

\* C6: a GET with caching enabled that does not skip the cache looks its
\* key up before anything is sent, and when the cache returns an entry for
\* the key the call returns success with the cached value as its result and
\* makes zero transport attempts: the step in which Get returns ends the
\* call, and a call served from the cache never sends.
C6_CacheHit ==
    [][ /\ ( /\ call[1].pc = "idle"
             /\ call'[1].pc # "idle"
             /\ call'[1].method = "GET"
             /\ cfg.cacheOn
             /\ ~call'[1].skipCache )
          => ( /\ call'[1].pc = "lookup"
               /\ call'[1].sent = 0
               /\ call'[1].seen = IF call'[1].key \in DOMAIN cache.store
                                  THEN cache.store[call'[1].key] ELSE NoEntry )
        /\ ( /\ call[1].pc = "lookup"
             /\ call'[1] # call[1]
             /\ GetReturns(call[1].seen, now) )
          => ( /\ call'[1].pc = "done"
               /\ call'[1].hit
               /\ call'[1].result = Success
               /\ call'[1].value = call[1].seen.value
               /\ call'[1].sent = 0 )
        /\ call[1].hit => (call'[1].sent = 0 /\ call'[1].pc \in {"done", "idle"})
      ]_vars

\* A second GET of the path was served the value the first one stored.
C6_Witness ==
    /\ call[1].pc = "done"
    /\ call[1].hit
    /\ call[1].sent = 0
    /\ call[1].result = Success
    /\ call[1].value = "v1"
    /\ call[1].key \in DOMAIN cache.store
    /\ cache.store[call[1].key].value = "v1"

\* C7: every entry written to the cache comes from a call with method GET,
\* caching enabled, a final status below 400 and a decoded body, and has
\* noStore unset and maxAge present; a call that ends in an error writes
\* nothing.  Stated of each step: a key whose entry is new or changed is the
\* key of the call that ends successfully in that step, with its Set.
C7_CacheWrites ==
    [][ \A k \in DOMAIN cache'.store :
            (k \notin DOMAIN cache.store \/ cache'.store[k] # cache.store[k]) =>
                /\ call[1].pc = "store"
                /\ call'[1].pc = "done"
                /\ call'[1].result = Success
                /\ call[1].method = "GET"
                /\ cfg.cacheOn
                /\ call[1].status < 400
                /\ call'[1].body.json
                /\ k = call[1].key
                /\ cache'.store[k].value = call'[1].value
                /\ ~cache'.store[k].cacheControl.noStore
                /\ cache'.store[k].cacheControl.maxAge.set
      ]_vars

\* A GET answered 200 with max-age=1 has stored its result.
C7_Witness ==
    /\ call[1].pc = "done"
    /\ call[1].method = "GET"
    /\ call[1].status = 200
    /\ call[1].result = Success
    /\ call[1].wrote.ok
    /\ call[1].key \in DOMAIN cache.store
    /\ cache.store[call[1].key] = call[1].wrote
    /\ cache.store[call[1].key].cacheControl.maxAge = SomeInt(Int64(1))

\* C32: a skip-cache call (Jobs.Get, Jobs.GetResults) goes to the network
\* without a lookup, whatever the cache holds under its key, and, its request
\* once built, never ends without an attempt; when it succeeds with a
\* storable Cache-Control header on a client with caching enabled, it makes
\* an entry of its result that expires max-age after the body was read, and
\* when it returns that entry is in the cache under its key.
C32_SkipCacheStillStores ==
    [][ /\ (call[1].pc = "idle" /\ call'[1].pc # "idle" /\ call'[1].skipCache) =>
              /\ call'[1].pc = "send"
              /\ ~call'[1].hit
              /\ cache' = cache
        /\ (call'[1].skipCache /\ call'[1].pc = "done") =>
              (~call'[1].hit /\ (Built(call'[1]) => call'[1].sent >= 1))
        /\ ( /\ call[1].pc = "read"
             /\ call[1].skipCache
             /\ call[1].method = "GET"
             /\ cfg.cacheOn
             /\ call'[1].pc = "store" \/ call'[1].result = Success
             /\ \E body \in SuccessBodies, buffered \in BOOLEAN :
                   Finish(1, body, "max-age=1", buffered) )
          => ( /\ call'[1].pc = "store"
               /\ call'[1].made.ok
               /\ call'[1].made.value = call'[1].value
               /\ call'[1].made.expiresAt = Int64(now + 1) )
        /\ (call[1].pc = "store" /\ call'[1] # call[1])
          => ( /\ call'[1].pc = "done"
               /\ call'[1].result = Success
               /\ call'[1].wrote = call[1].made
               /\ call'[1].key \in DOMAIN cache'.store
               /\ cache'.store[call'[1].key] = call'[1].wrote
               /\ cache'.store[call'[1].key].value = call'[1].value )
      ]_vars

\* A skip-cache GET is on its way to the network although a Get of its key
\* would return an entry.
C32_Witness ==
    /\ cfg.cacheOn
    /\ call[1].pc = "send"
    /\ call[1].method = "GET"
    /\ call[1].skipCache
    /\ call[1].sent = 0
    /\ CacheGet(cache, call[1].key, now).found

\* C33: no step of a call whose method is not GET, and no step of any call
\* on a client with caching disabled, changes the cache: neither a lookup
\* (which could purge an expired entry) nor a store is made for it.  Stated
\* of the caller of SpecFrame.
C33_NoCacheAccess ==
    [][ (call'[1] # call[1] /\ (~cfg.cacheOn \/ call'[1].method # "GET")) =>
            cache' = cache
      ]_vars

\* With caching disabled a GET has succeeded with max-age=1 while the cache
\* held an expired entry under its key: the entry is still there and nothing
\* was stored.
C33_Witness ==
    /\ ~cfg.cacheOn
    /\ call[1].pc = "done"
    /\ call[1].method = "GET"
    /\ ~call[1].skipCache
    /\ call[1].result = Success
    /\ call[1].wrote = NoEntry
    /\ call[1].key \in DOMAIN cache.store
    /\ cache.store[call[1].key].value = "v2"
    /\ Expired(cache.store[call[1].key], now)

\* C37: no step of a call of a method other than GET changes the cache,
\* whatever its outcome; and a cached GET of the path that starts after such
\* a call has succeeded, while the path's entry has not expired, ends with
\* its lookup, with the value of that entry, sends nothing and leaves the
\* cache as it is.  Stated of the writes (call 1) and reads (call 2) of
\* SpecWrite.
C37_WritesNeverInvalidate ==
    [][ /\ call'[1] # call[1] => cache' = cache
        /\ ( /\ call[1].pc = "done"
             /\ call[1].result = Success
             /\ call[2].pc = "lookup"
             /\ call'[2] # call[2]
             /\ call'[2].path = call[1].path
             /\ call'[2].key \in DOMAIN cache.store
             /\ Less64(Int64(now), cache.store[call'[2].key].expiresAt) )
          => ( /\ call'[2].pc = "done"
               /\ call'[2].hit
               /\ call'[2].sent = 0
               /\ call'[2].result = Success
               /\ call'[2].value = cache.store[call'[2].key].value
               /\ cache' = cache )
      ]_vars

\* A POST of the schemas has returned v2 with Cache-Control max-age=1, and
\* the GET of the schemas made after it was served v1 from the cache.
C37_Witness ==
    /\ call[1].pc = "done"
    /\ call[1].method = "POST"
    /\ call[1].result = Success
    /\ call[1].value = "v2"
    /\ call[1].wrote = NoEntry
    /\ call[2].pc = "done"
    /\ call[2].path = call[1].path
    /\ call[2].hit
    /\ call[2].sent = 0
    /\ call[2].value = "v1"
    /\ cache.store[call[2].key].value = "v1"

\* C38: no-cache and private are parsed and kept in the entry but decide
\* nothing.  A cached GET whose body has been read and decoded goes on to
\* store its result exactly when the header has max-age and has not
\* no-store, with the parsed directives and the expiry now + max-age, and
\* its Set puts that entry under its key; and a cached GET whose key holds
\* an unexpired entry marked no-cache or private ends with its lookup, with
\* the entry's value, sends nothing and leaves the cache as it is.  Stated
\* of the caller of SpecDirectives.
C38_NoCachePrivateIgnored ==
    [][ /\ \A cc \in DirectiveHeaders, body \in {JSONBody("v1"), JSONBody("v2")} :
             ( /\ call[1].pc = "read"
               /\ call'[1].pc = "store" \/ call'[1].result = Success
               /\ Finish(1, body, cc, TRUE) )
             => LET d == ParseCacheControl(cc)
                IN  IF d.maxAge.set /\ ~d.noStore
                    THEN /\ call'[1].pc = "store"
                         /\ call'[1].made.ok
                         /\ call'[1].made.value = body.val
                         /\ call'[1].made.expiresAt = Add64(Int64(now), d.maxAge.val)
                         /\ call'[1].made.cacheControl = d
                         /\ cache' = cache
                    ELSE call'[1].pc = "done" /\ cache' = cache
        /\ (call[1].pc = "store" /\ call'[1] # call[1])
             => ( /\ call'[1].pc = "done"
                  /\ call'[1].result = Success
                  /\ call[1].key \in DOMAIN cache'.store
                  /\ cache'.store[call[1].key] = call[1].made )
        /\ ( /\ call[1].pc = "lookup"
             /\ call'[1] # call[1]
             /\ call'[1].key \in DOMAIN cache.store
             /\ ( \/ cache.store[call'[1].key].cacheControl.noCache
                  \/ cache.store[call'[1].key].cacheControl.private )
             /\ ~Expired(cache.store[call'[1].key], now) )
          => ( /\ call'[1].pc = "done"
               /\ call'[1].hit
               /\ call'[1].sent = 0
               /\ call'[1].result = Success
               /\ call'[1].value = cache.store[call'[1].key].value
               /\ cache' = cache )
      ]_vars

\* A GET has been served from the cache, with no request sent, an entry
\* whose directives have both no-cache and private set.
C38_Witness ==
    /\ call[1].pc = "done"
    /\ call[1].hit
    /\ call[1].sent = 0
    /\ call[1].result = Success
    /\ call[1].key \in DOMAIN cache.store
    /\ cache.store[call[1].key].cacheControl.noCache
    /\ cache.store[call[1].key].cacheControl.private
    /\ call[1].value = cache.store[call[1].key].value

\* C39: the mutex is held only by a call that is between c.mu.Lock() and
\* the c.mu.Unlock() that follows it: never by a call that is sending,
\* sleeping, reading the body or has returned, whatever it returned; and
\* every call that reaches c.mu.Lock() gets past it.
C39_MutexReleased ==
    /\ [](\A c \in Calls :
            /\ mu = c => call[c].pc \in {"check", "mark"}
            /\ call[c].pc \in {"check", "mark"} => mu = c)
    /\ \A c \in Calls : (call[c].pc = "lock") ~> (call[c].pc \in {"read", "done"})

\* Call 1 has evaluated the version check and returned, and call 2 has
\* taken the mutex after it while a retry of its own lies behind it.
C39_Witness ==
    /\ call[1].pc = "done"
    /\ call[1].evaluated
    /\ mu = 2
    /\ call[2].pc = "check"
    /\ call[2].sent = 2

\* C36: the cache key of a GET of one URL differs between clients with
\* different API keys, so over a cache they share a call that succeeds
\* returns the account of its own client's key, never an entry that a call
\* signed with another key has stored.
C36_KeysSeparateClients ==
    /\ \A apiKey \in APIKeys \ {cfg.apiKey} :
          GenerateCacheKey("GET", DefaultBaseURL \o "/api/v1/usage", hashString(apiKey))
              # GenerateCacheKey("GET", DefaultBaseURL \o "/api/v1/usage", cfg.authHash)
    /\ (call[1].pc = "done" /\ call[1].result = Success) => call[1].value = cfg.apiKey

\* The client of key BB has been served from the cache, with no request
\* sent, the account that a call of the client of key Aa stored.
C36_Failure ==
    /\ cfg.apiKey = "BB"
    /\ cfg.authHash = hashString("Aa")
    /\ call[1].pc = "done"
    /\ call[1].hit
    /\ call[1].sent = 0
    /\ call[1].result = Success
    /\ call[1].value = "Aa"

\* -------------------------------------- the version check, checked ---
\* C8: over the lifetime of one client, across sequential and concurrent
\* calls, the API-version compatibility check is evaluated at most once,
\* also when that evaluation reports an incompatible version.
C8_EvaluatedAtMostOnce == evals <= 1

\* Two calls of one client have returned, and the responses of both carried
\* a version: the one that took the mutex first evaluated the check, the
\* other found the flag set and did not.
C8_Witness ==
    /\ evals = 1
    /\ \A c \in {1, 2} :
          /\ call[c].pc = "done"
          /\ call[c].apiVersion # ""
    /\ call[1].evaluated
    /\ ~call[1].flagSeen
    /\ call[2].flagSeen
    /\ ~call[2].evaluated

\* C9: the apiVersionChecked flag is monotone: it starts false and, once
\* true, never becomes false again; a response processed while it is true
\* is handled with no inspection of the version header, no compatibility
\* check and no missing-header warning, whatever header it carries.
C9_FlagMonotone ==
    /\ ~apiVersionChecked
    /\ [][ /\ apiVersionChecked => apiVersionChecked'
           /\ \A c \in Calls :
                (apiVersionChecked /\ call[c].pc = "check" /\ call'[c].pc # "check") =>
                    /\ call'[c].pc = "read"
                    /\ ~call'[c].evaluated
                    /\ call'[c].warned = ""
                    /\ evals' = evals
                    /\ mu' = 0
         ]_vars

\* With the flag set by an earlier call, a response that carried a version
\* was passed through with its header not looked at, and the call succeeded.
C9_Witness ==
    /\ apiVersionChecked
    /\ \E c \in Calls :
          /\ call[c].pc = "done"
          /\ call[c].flagSeen
          /\ call[c].apiVersion = "0.5.0"
          /\ ~call[c].evaluated
          /\ call[c].result = Success

\* C29: a response of status >= 400 is not inspected for its version: the
\* call it ends has not evaluated the compatibility check nor warned of a
\* missing header, does not set the apiVersionChecked flag, and does not
\* return the version error, whatever X-API-Version the response carries.
C29_ErrorsNotInspected ==
    \A c \in Calls :
        (call[c].status >= 400 /\ call[c].pc \in {"mark", "read", "store", "done"}) =>
            /\ ~call[c].evaluated
            /\ call[c].warned = ""
            /\ call[c].pc # "mark"
            /\ call[c].result.kind # "UnsupportedAPIVersionError"

\* A 404 was the first response the client got and carried the version
\* 2.0.0: the check was evaluated on it, the warning of a newer API was
\* logged and the flag was set, before the call returned NotFound.
C29_Failure ==
    /\ call[1].pc = "done"
    /\ call[1].status = 404
    /\ call[1].apiVersion = "2.0.0"
    /\ ~call[1].flagSeen
    /\ call[1].evaluated
    /\ call[1].warned = "newer"
    /\ apiVersionChecked
    /\ call[1].result.kind = "NotFoundError"

\* The (major, minor, patch) of the version strings of the model, written
\* out, and their order.
Triple(v) ==
    CASE v = "0.0.0" -> <<0, 0, 0>>
      [] v = "0.5.0" -> <<0, 5, 0>>
      [] v = "2.0.0" -> <<2, 0, 0>>

TripleLess(a, b) ==
    \/ a[1] < b[1]
    \/ a[1] = b[1] /\ a[2] < b[2]
    \/ a[1] = b[1] /\ a[2] = b[2] /\ a[3] < b[3]

\* C10: the compatibility check fails exactly when the server's version is
\* below the minimum supported one in (major, minor, patch) order; the call
\* that triggered it then returns UnsupportedAPIVersion with no body read or
\* decoded and nothing written to the cache.  Otherwise the check passes
\* and the call goes on; it warns exactly when the server's major version
\* exceeds the largest known major.
C10_CompatibilityCheck ==
    LET me     == call[1]
        failed == me.result.kind = "UnsupportedAPIVersionError"
        older  == TripleLess(Triple(me.apiVersion), Triple(MinAPIVersion))
        newer  == Triple(me.apiVersion)[1] > Triple(MaxKnownAPIVersion)[1]
    IN  /\ me.evaluated => (failed <=> older)
        /\ failed =>
              /\ me.evaluated
              /\ me.pc = "done"
              /\ me.body = EmptyBody
              /\ me.value = ""
              /\ me.wrote = NoEntry
              /\ me.warned = ""
        /\ (me.evaluated /\ ~older) =>
              /\ me.warned = (IF newer THEN "newer" ELSE "")
              /\ me.pc \in {"mark", "read", "store", "done"}
        /\ me.warned = "newer" => me.evaluated

\* The first response to a cached GET carried the version 2.0.0, the
\* major of which is beyond the largest known: the check passed with the
\* warning and the call went on to decode the body and store the result.
C10_Witness ==
    /\ cfg.cacheOn
    /\ call[1].pc = "done"
    /\ call[1].method = "GET"
    /\ ~call[1].skipCache
    /\ call[1].status = 200
    /\ call[1].apiVersion = "2.0.0"
    /\ call[1].evaluated
    /\ call[1].warned = "newer"
    /\ call[1].result = Success
    /\ call[1].wrote.ok
    /\ call[1].key \in DOMAIN cache.store

\* C14: a call with no result destination (Schemas.Delete, Sites.Delete,
\* Keys.Revoke, LLM.DeleteKey, LLM.SetChain), or whose response with a
\* status below 400 has an empty body, returns success without decoding.
\* Stated of the calls whose response passed the version check and whose
\* body was read.
C14_NothingToDecode ==
    LET me == call[1]
    IN  ( /\ me.pc = "done"
          /\ EndsBelow400(me)
          /\ me.result.kind # "UnsupportedAPIVersionError"
          /\ me.result.message # "failed to read response"
          /\ (~me.hasResult \/ me.body.empty) )
        => me.result = Success

\* A DELETE was answered 200 with a JSON body, which was read, and the call
\* returned the error of decoding into a nil result.
C14_Failure ==
    /\ call[1].pc = "done"
    /\ call[1].method = "DELETE"
    /\ ~call[1].hasResult
    /\ call[1].outs = <<Response(200, "")>>
    /\ call[1].body = JSONBody("v1")
    /\ call[1].result = Failure("wrapError", 0, "failed to parse response")

\* ---------------------------------- deadlines and cancellation, checked ---
\* The properties below are stated of call 1 under SpecTimeout.
\* C11: the configured timeout applies to each attempt separately: attempt
\* k is cut off by its deadline no earlier than (its start + timeout),
\* whatever time earlier attempts and the waits between them consumed.
C11_PerAttemptDeadline ==
    LET me == call[1]
    IN  \A k \in 1..Len(me.outs) :
            me.outs[k].ctx = "deadline exceeded" =>
                me.ends[k] >= me.starts[k] + cfg.timeout

\* The second attempt ended with the deadline error before its own timeout
\* had run, the caller not having cancelled.
C11_Failure ==
    /\ call[1].cancelledAt = Never
    /\ Len(call[1].outs) >= 2
    /\ call[1].outs[1] = Response(503, "")
    /\ call[1].outs[2] = CtxErr("deadline exceeded")
    /\ call[1].ends[2] < call[1].starts[2] + cfg.timeout

\* C12: once the caller's context is cancelled the call aborts at once: the
\* next thing the call does is return, at that instant, the error of the
\* cancelled context; no sleep runs on and no wait is begun.
C12_CancelAborts ==
    [][ (call[1].cancelledAt # Never /\ call'[1] # call[1]) =>
            /\ call'[1].pc = "done"
            /\ now' = now
            /\ call'[1].result.message = "network error"
            /\ call'[1].outs[Len(call'[1].outs)].ctx = "canceled"
      ]_vars

\* The caller has cancelled, the attempt made after that failed with the
\* context's error, and the call is sleeping before its next attempt.
C12_Failure ==
    /\ call[1].cancelledAt # Never
    /\ call[1].pc = "sleep"
    /\ call[1].outs[Len(call[1].outs)] = CtxErr("canceled")
    /\ call[1].wake > now

\* ------------------------------- cache reads in the pipeline, checked ---
\* The properties below are stated of the caller of SpecShared.
\* C13: a cache-read failure never fails the call: a GET that finds an
\* entry whose value cannot be encoded, or cannot be decoded into the
\* result, goes on to a live attempt.  So a call that has ended without any
\* attempt has ended in success.
C13_CacheReadFallsBack ==
    (call[1].pc = "done" /\ call[1].sent = 0) => call[1].result = Success

\* The entry under the key holds a value that does not decode into the
\* result, and the GET has returned the decoding error with no attempt made.
C13_Failure ==
    /\ call[1].pc = "done"
    /\ call[1].sent = 0
    /\ call[1].key \in DOMAIN cache.store
    /\ cache.store[call[1].key].value = "mismatched"
    /\ call[1].result.kind = "UnmarshalTypeError"


\* --------------------------------------------- the MemoryCache, checked ---
KeyA == "GET:/a:2z"
KeyB == "GET:/b:2z"
KeyC == "GET:/c:2z"

\* No key of the cache has expired at time t.
Unexpired(mc, t) == \A k \in DOMAIN mc.store : ~Expired(mc.store[k], t)

\* A Get of the key at time t would return its entry.
Retrievable(mc, key, t) == CacheGet(mc, key, t).found

\* The step is a Set of the key with an entry that may be stored (NoStore
\* unset).
Stores(key) ==
    /\ ops'.last.kind = "set"
    /\ ops'.last.key = key
    /\ \E g \in Goroutines, header \in StoreHeaders \ {"no-store"} : MCSet(g, key, header)

\* C15: in a MemoryCache of capacity N that holds N unexpired keys, a Set of
\* an absent key (with an entry that may be stored) removes exactly one key,
\* the head of the insertion order; the other N-1 keys keep their entries and
\* their order, the new key goes to the end, and all N are retrievable.
C15_EvictsOldest ==
    [][\A key \in StoreKeys :
          ( /\ key \notin DOMAIN cache.store
            /\ Cardinality(DOMAIN cache.store) = cfg.maxEntries
            /\ Stores(key)
            /\ Unexpired(cache, now) )
          => /\ (DOMAIN cache.store) \ (DOMAIN cache'.store) = {Head(cache.order)}
             /\ \A k \in (DOMAIN cache.store) \ {Head(cache.order)} :
                   /\ k \in DOMAIN cache'.store
                   /\ cache'.store[k] = cache.store[k]
                   /\ Retrievable(cache', k, now)
             /\ Retrievable(cache', key, now)
             /\ cache'.order = Append(Tail(cache.order), key)]_vars

\* A cache of capacity 2 that held a and b, both unexpired, after Set(c):
\* a is gone, b and c are held.
C15_Witness ==
    /\ cfg.maxEntries = 2
    /\ ops.last = [kind |-> "set", key |-> KeyC, found |-> FALSE, evicted |-> {KeyA}]
    /\ cache.order = <<KeyB, KeyC>>
    /\ Retrievable(cache, KeyB, now)
    /\ Retrievable(cache, KeyC, now)


\* C16: a Set of a key that is already present (with an entry that may be
\* stored) replaces the entry in place: the same keys are held afterwards, in
\* the same order, and the other keys keep their entries, whatever the size
\* of the cache.
C16_ReplacesInPlace ==
    [][\A key \in StoreKeys :
          (key \in DOMAIN cache.store /\ Stores(key))
          => /\ DOMAIN cache'.store = DOMAIN cache.store
             /\ cache'.order = cache.order
             /\ \A k \in (DOMAIN cache.store) \ {key} :
                   cache'.store[k] = cache.store[k]]_vars

\* A cache of capacity 2 that held a and b, after Set(b) again: a is gone.
C16_Failure ==
    /\ cfg.maxEntries = 2
    /\ ops.last = [kind |-> "set", key |-> KeyB, found |-> TRUE, evicted |-> {KeyA}]
    /\ cache.order = <<KeyB>>


\* MemoryCache.Size
Size(mc) == Cardinality(DOMAIN mc.store)

\* C17: whatever Set, Get, Delete and Clear calls are made, in whatever
\* interleaving, a MemoryCache of capacity N >= 1 never holds more than N
\* entries.
C17_SizeBounded == cfg.maxEntries >= 1 => Size(cache) <= cfg.maxEntries

\* A full cache of capacity 2 right after a Set that had to evict a key to
\* stay within its capacity.
C17_Witness ==
    /\ cfg.maxEntries = 2
    /\ ops.last.kind = "set"
    /\ ops.last.evicted # {}
    /\ ~ops.last.found
    /\ Size(cache) = cfg.maxEntries


\* The entry of the key has expired at time t and no stale-while-revalidate
\* allowance covers t.
FullyExpired(mc, key, t) ==
    /\ key \in DOMAIN mc.store
    /\ Less64(mc.store[key].expiresAt, Int64(t))
    /\ LET swr == mc.store[key].cacheControl.staleWhileRevalidate
       IN  ~swr.set \/ ~Less64(Int64(t), Add64(mc.store[key].expiresAt, swr.val))

\* The order without the key.
Without(order, key) == LET Other(k) == k # key IN SelectSeq(order, Other)

\* The goroutine is inside a Get of the key, between its read of the map
\* and its test, and what it read is the entry the map holds.
Read(g, key) ==
    /\ ops.pending[g].pc = "test"
    /\ ops.pending[g].key = key
    /\ key \in DOMAIN cache.store
    /\ ops.pending[g].entry = cache.store[key]

\* C18: a Get of a key whose entry has expired, with no stale-while-revalidate
\* allowance or with the allowance elapsed, reports nothing but goes on to
\* delete the key; when it returns it reports not-found, the key is in
\* neither the map nor the order, and every other key has kept its entry and
\* its position.
C18_ExpiredPurged ==
    [][\A g \in Goroutines, key \in StoreKeys :
          /\ ( /\ Read(g, key)
               /\ FullyExpired(cache, key, now)
               /\ MCGetTest(g) )
             => ops'.pending[g] = [IdleOp EXCEPT !.pc = "purge", !.key = key] /\ ops'.last = ops.last
          /\ ( /\ ops.pending[g].pc = "purge"
               /\ ops'.pending[g].pc = "idle"
               /\ ops.pending[g] = [IdleOp EXCEPT !.pc = "purge", !.key = key] )
             => /\ ops'.last.kind = "purge" /\ ops'.last.key = key /\ ~ops'.last.found
                /\ DOMAIN cache'.store = (DOMAIN cache.store) \ {key}
                /\ \A k \in DOMAIN cache'.store : cache'.store[k] = cache.store[k]
                /\ cache'.order = Without(cache.order, key)]_vars

\* A Get has just purged the expired key b of a cache that held a, then b:
\* a remains.
C18_Witness ==
    /\ ops.last = [kind |-> "purge", key |-> KeyB, found |-> FALSE, evicted |-> {KeyB}]
    /\ cache.order = <<KeyA>>
    /\ DOMAIN cache.store = {KeyA}


\* The entry has expired at time t but its stale-while-revalidate allowance
\* s has not elapsed: expiresAt < t < expiresAt + s over the integers,
\* stated as t - expiresAt < s, a difference that an int64 holds for an
\* entry that expired while the clock of the model ran.
StaleUsable(entry, t) ==
    /\ entry.ok
    /\ Less64(entry.expiresAt, Int64(t))
    /\ entry.cacheControl.staleWhileRevalidate.set
    /\ Less64(Add64(Int64(t), Neg64(entry.expiresAt)),
              entry.cacheControl.staleWhileRevalidate.val)

\* C19: a Get of an expired entry whose stale-while-revalidate allowance has
\* not elapsed returns the entry and leaves the store as it is; the cached
\* GET that makes this lookup ends with it, served the entry's value (when
\* that value decodes into the caller's result) with no transport attempt,
\* and nothing is sent or stored on its behalf afterwards.
C19_StaleServed ==
    [][ /\ ( /\ call[1].pc = "lookup"
             /\ call'[1] # call[1]
             /\ StaleUsable(call[1].seen, now) )
          => LET entry == call[1].seen
             IN  /\ cache' = cache
                 /\ call'[1].pc = "done"
                 /\ call'[1].hit
                 /\ call'[1].sent = 0
                 /\ (Encodes(entry.value) /\ Decodes(entry.value))
                       => call'[1].result = Success /\ call'[1].value = entry.value
        /\ (call[1].hit /\ call'[1] # call[1])
              => call'[1] = IdleCall /\ cache' = cache
      ]_vars

\* An entry stored with max-age=0 and the largest stale-while-revalidate an
\* int holds was looked up one second after it expired: the sum of its
\* expiry and its allowance wrapped, and the Get goes on to delete it.
C19_Failure ==
    /\ call[1].pc = "purge"
    /\ StaleUsable(call[1].seen, now)
    /\ call[1].seen.cacheControl.staleWhileRevalidate = SomeInt(MaxInt64)
    /\ call[1].seen.expiresAt = Int64(now - 1)
    /\ call[1].key \in DOMAIN cache.store
    /\ cache.store[call[1].key] = call[1].seen


\* C20: a Get that returns an entry leaves the cache, and so the eviction
\* order, exactly as it was; and whatever Gets came before, a Set of an
\* absent key into a full cache evicts no key but the oldest one held.
C20_NoPromotion ==
    [][\A key \in StoreKeys :
          /\ (\E g \in Goroutines : ops'.pending[g].pc = "test" /\ MCGetRead(g, key))
                => cache' = cache
          /\ ( /\ \E g \in Goroutines : Read(g, key) /\ MCGetTest(g)
               /\ Retrievable(cache, key, now) )
             => /\ cache' = cache
                /\ ops'.last = [kind |-> "get", key |-> key, found |-> TRUE,
                                evicted |-> {}]
          /\ ( /\ key \notin DOMAIN cache.store
               /\ Size(cache) = cfg.maxEntries
               /\ Stores(key) )
             => ops'.last.evicted = {Head(cache.order)}]_vars

\* A Get has just returned the entry of a, the oldest key of a full cache of
\* capacity 2: a is still the next key to be evicted.
C20_Witness ==
    /\ cfg.maxEntries = 2
    /\ ops.last = [kind |-> "get", key |-> KeyA, found |-> TRUE, evicted |-> {}]
    /\ cache.order = <<KeyA, KeyB>>
    /\ Retrievable(cache, KeyA, now)


\* ---------------------------------- the MemoryCache's locking, checked ---
\* The goroutine's next statement writes c.store or c.order, or it is
\* between two such writes of one call.
Writing(g) ==
    ops.pending[g].pc \in {"evict", "evictmap", "append", "store", "delmap",
                           "delorder", "clearmap", "clearorder"}

\* The goroutine's next statement reads c.store.
Reading(g) == ops.pending[g].pc = "read"

\* The order lists exactly the keys of the map, each once.
OrderMatchesStore(mc) ==
    /\ {mc.order[i] : i \in 1..Len(mc.order)} = DOMAIN mc.store
    /\ Len(mc.order) = Cardinality(DOMAIN mc.store)

\* C21: under any interleaving of Get, Set, Delete, Clear and Size, a
\* goroutine that writes the map or the order does so while no other
\* goroutine writes or reads them, and whenever no goroutine holds the write
\* lock the order lists exactly the keys of the map, each once.
C21_SingleWriter ==
    /\ \A g \in Goroutines : \A h \in Goroutines \ {g} :
          Writing(g) => ~Writing(h) /\ ~Reading(h)
    /\ ops.rw.writer = "" => OrderMatchesStore(cache)

\* A Set has appended its key to the order of a cache of capacity 2 and
\* not yet stored it in the map, while the other goroutine waits for the read
\* lock.
C21_Witness ==
    \E g \in Goroutines : \E h \in Goroutines \ {g} :
          /\ ops.pending[g].pc = "store"
          /\ ~OrderMatchesStore(cache)
          /\ ops.pending[h].pc = "rlock"
          /\ cfg.maxEntries = 2
          /\ Len(cache.order) = 2


\* ------------------------------------- ownership of entries, checked ---
\* C22: what a caller writes into the result object it was handed by a GET,
\* or into an entry it obtained through Get, never shows in the cache: the
\* values the cache holds, and so the values later hits return, are only
\* those decoded from responses.
C22_EntriesOwned ==
    \A k \in DOMAIN cache.store : cache.store[k].value \in {"v1", "v2"}

\* A GET was served from the cache the value its caller's earlier writing
\* left there.
C22_Failure ==
    /\ call[1].pc = "done"
    /\ call[1].hit
    /\ call[1].result = Success
    /\ call[1].seen.value = "mutated"
    /\ call[1].value = "mutated"
    /\ cache.store[call[1].key].value = "mutated"


\* --------------------------------------- the pure functions, checked ---
\* C23: CreateCacheEntry yields no entry exactly when the parsed directives
\* have noStore set or maxAge absent, so for "no-store" and for "private";
\* otherwise the entry holds the value and the parsed directives and expires
\* maxAge seconds after its creation, so for "max-age=3600" 3600 seconds
\* after it: its expiresAt is the sum of the time and maxAge, and comes
\* before the time only for a maxAge below 0.
C23_CreateCacheEntry ==
    fn.op = "CreateCacheEntry" =>
        LET value  == fn.args[1]
            header == fn.args[2]
            t      == fn.args[3]
            cc     == ParseCacheControl(header)
        IN  /\ ~fn.out.ok <=> (cc.noStore \/ ~cc.maxAge.set)
            /\ header \in {"no-store", "private"} => ~fn.out.ok
            /\ header = "max-age=3600" => fn.out.ok /\ fn.out.expiresAt = Int64(t + 3600)
            /\ fn.out.ok => /\ fn.out.value = value
                            /\ fn.out.cacheControl = cc
                            /\ fn.out.expiresAt = Add64(Int64(t), cc.maxAge.val)
                            /\ Less64(fn.out.expiresAt, Int64(t)) <=>
                                   Negative64(cc.maxAge.val)

\* CreateCacheEntry(v1, "max-age=9223372036854775807") was called one second
\* in: the entry expires at the least int64, long before it was made.
C23_Failure ==
    /\ fn.op = "CreateCacheEntry"
    /\ fn.args = <<"v1", "max-age=9223372036854775807", 1>>
    /\ fn.out.ok
    /\ fn.out.cacheControl.maxAge = SomeInt(MaxInt64)
    /\ fn.out.expiresAt = MinInt64

\* C35: every maxAge and staleWhileRevalidate that ParseCacheControl yields
\* is at least 0; so an entry CreateCacheEntry builds at time t expires at t
\* or later and, once stored, is returned by a Get made at t.
C35_NonNegativeAges ==
    /\ fn.op = "ParseCacheControl" =>
          /\ fn.out.maxAge.set => ~Negative64(fn.out.maxAge.val)
          /\ fn.out.staleWhileRevalidate.set =>
                 ~Negative64(fn.out.staleWhileRevalidate.val)
    /\ (fn.op = "CreateCacheEntry" /\ fn.out.ok) =>
          LET t == fn.args[3]
          IN  /\ ~Negative64(fn.out.cacheControl.maxAge.val)
              /\ ( fn.out.cacheControl.staleWhileRevalidate.set =>
                     ~Negative64(fn.out.cacheControl.staleWhileRevalidate.val) )
              /\ ~Less64(fn.out.expiresAt, Int64(t))
              /\ CacheGet(CacheSet(EmptyCache, KeyA, fn.out, 1), KeyA, t).found

\* CreateCacheEntry(v1, "max-age=-5") was called one second in: the entry
\* expired four seconds before the clock started, and a Get made in the same
\* second as the Set that stores it does not find it.
C35_Failure ==
    /\ fn.op = "CreateCacheEntry"
    /\ fn.args = <<"v1", "max-age=-5", 1>>
    /\ fn.out.ok
    /\ fn.out.cacheControl.maxAge = SomeInt(Int64(0 - 5))
    /\ fn.out.expiresAt = Int64(0 - 4)
    /\ ~CacheGet(CacheSet(EmptyCache, KeyA, fn.out, 1), KeyA, 1).found

\* C24: the backoff before the retry that follows attempt number n is
\* min(2^(n-1), 30) seconds as an int64 count of nanoseconds: 1, 2, 4, 8 and
\* 16 seconds for n = 1..5 and 30 seconds for every n >= 6, and it is never
\* below one second nor above thirty.
C24_BackoffCapped ==
    fn.op = "calculateBackoff" =>
        LET attempt == fn.args[1]
        IN  /\ fn.out = Seconds(IF attempt >= 6 THEN 30 ELSE 2 ^ (attempt - 1))
            /\ ~Less64(fn.out, Seconds(1))
            /\ ~Less64(Seconds(30), fn.out)

\* calculateBackoff(35): 2^34 seconds do not fit an int64 of nanoseconds,
\* the product wraps to a negative duration, and the smaller of it and thirty
\* seconds is the negative one.
C24_Failure ==
    /\ fn.op = "calculateBackoff"
    /\ fn.args = <<35>>
    /\ Negative64(fn.out)
    /\ Less64(fn.out, Seconds(1))

\* The tokens at the places perm[1], perm[2], ... of parts.
Permuted(parts, perm) == [i \in 1..Len(parts) |-> parts[perm[i]]]

\* The tokens of parts, those at the places in set put in upper case and
\* between white space.
Varied(parts, set) ==
    [i \in 1..Len(parts) |->
        IF i \in set THEN " " \o ToUpper(parts[i]) \o "\f" ELSE parts[i]]

\* The tokens of parts but the one at place i.
Dropped(parts, i) == SubSeq(parts, 1, i - 1) \o SubSeq(parts, i + 1, Len(parts))

\* C26: the directives ParseCacheControl yields for a header are those it
\* yields for the header's tokens in any other order, and for the header
\* with any of its tokens in another letter case or between white space, and
\* when it is applied again; a token that is no directive or whose value is
\* no integer changes nothing.
C26_TokenOrderIrrelevant ==
    fn.op = "ParseCacheControl" =>
        LET header == fn.args[1]
            parts  == Split(header)
        IN  /\ \A perm \in Permutations(1..Len(parts)) :
                  ParseCacheControl(Join(Permuted(parts, perm))) = fn.out
            /\ \A set \in SUBSET (1..Len(parts)) :
                  ParseCacheControl(Join(Varied(parts, set))) = fn.out
            /\ ParseCacheControl(header) = fn.out
            /\ \A i \in 1..Len(parts) :
                  parts[i] \in {"immutable", "max-age=abc"} =>
                      ParseCacheControl(Join(Dropped(parts, i))) = fn.out

\* "max-age=1,MAX-AGE=2" gives a maxAge of 2, and the same two tokens in the
\* other order give 1: of a directive that occurs twice the last value is
\* kept.
C26_Failure ==
    /\ fn.op = "ParseCacheControl"
    /\ fn.args = <<"max-age=1,MAX-AGE=2">>
    /\ fn.out.maxAge = SomeInt(Int64(2))
    /\ ParseCacheControl("MAX-AGE=2,max-age=1").maxAge = SomeInt(Int64(1))

\* The place of a version string in the order of (major, minor, patch), the
\* pre-release suffix left out and a string that is no major.minor.patch
\* taken for 0.0.0.
ClaimedRank(v) ==
    CASE v = "0.5.0" -> 1
      [] v = "1.0.0" -> 2
      [] v \in {"1.2.3", "1.2.3-beta"} -> 3
      [] v = "1.2.4" -> 4
      [] v = "1.10.0" -> 5
      [] v = "2.0.0" -> 6
      [] v = "10.0.0" -> 7
      [] v = "9223372036854775807.0.0" -> 8
      [] v = "9223372036854775808.0.0" -> 9
      [] OTHER -> 0

Sign(n) == IF n < 0 THEN -1 ELSE IF n > 0 THEN 1 ELSE 0

\* C27: CompareVersions(a, b) is -1, 0 or 1 as the (major, minor, patch) of
\* a comes before, with or after that of b, a pre-release suffix being left
\* out and a string that is no numeric major.minor.patch counting as 0.0.0;
\* CompareVersions(b, a) is its negation, and the order is transitive.
C27_VersionOrder ==
    fn.op = "CompareVersions" =>
        LET a == fn.args[1]
            b == fn.args[2]
        IN  /\ fn.out = Sign(ClaimedRank(a) - ClaimedRank(b))
            /\ fn.out = 0 - ComparedVersions[b, a]
            /\ \A c \in PureVersions :
                  /\ (fn.out <= 0 /\ ComparedVersions[b, c] <= 0) =>
                        ComparedVersions[a, c] <= 0
                  /\ (fn.out < 0 /\ ComparedVersions[b, c] < 0) =>
                        ComparedVersions[a, c] < 0

\* 9223372036854775808.0.0 and 9223372036854775807.0.0 compare equal: the
\* major of the first is out of the range of int and is read as the largest
\* int, which is the major of the second.
C27_Failure ==
    /\ fn.op = "CompareVersions"
    /\ fn.args = <<"9223372036854775808.0.0", "9223372036854775807.0.0">>
    /\ fn.out = 0

\* The method in upper case, written out for each method of the model, in
\* the bytes of its UTF-8.  The upper case of e acute is E acute, of
\* U+00FF it is U+0178, of U+00B5 U+039C, of the long s U+017F the letter
\* S, of the dotless i U+0131 the letter I, of U+1E61 U+1E60, of U+1F80
\* U+1F88 and of U+10428 U+10400; the sharp s U+00DF and the Kelvin sign
\* U+212A have no upper case of their own and stay; the byte FF, which is
\* no UTF-8, comes out as U+FFFD.
ClaimedMethod(method) ==
    CASE method \in {"GET", "get", "Get"} -> "GET"
      [] method = "POST" -> "POST"
      [] method = "DELETE" -> "DELETE"
      [] method \in {"gÃ©t", "GÃT"} -> "GÃT"
      [] method \in {"gÃ¿t", "GÅ¸T"} -> "GÅ¸T"
      [] method = "Âµ" -> "Î"
      [] method = "gÿt" -> "Gï¿½T"
      [] method = "poÅ¿t" -> "POST"
      [] method = "Ä±" -> "I"
      [] method = "á¹¡" -> "á¹ "
      [] method = "á¾" -> "á¾"
      [] method = "ð¨" -> "ð"
      [] method = "Ã" -> "Ã"
      [] method = "âª" -> "âª"

\* C28: with the API-key hash of one client, the key of a request is its
\* method in upper case, its URL and the hash, joined by colons, whatever
\* the letter case the method is given in; and it is the key of another
\* request exactly when the two have the same upper-cased method and the
\* same URL, so requests that differ in upper-cased method or in path or
\* query have different keys.
C28_KeyByMethodAndURL ==
    fn.op = "GenerateCacheKey" =>
        LET method   == fn.args[1]
            urlStr   == fn.args[2]
            authHash == fn.args[3]
        IN  /\ fn.out = ClaimedMethod(method) \o ":" \o urlStr \o ":" \o authHash
            /\ \A m \in PureMethods, u \in PureURLs :
                  (CacheKeyOf[m, u, authHash] = fn.out) <=>
                      (ClaimedMethod(m) = ClaimedMethod(method) /\ u = urlStr)

\* The key of a "get" of the usage URL was computed: it is that of a "GET".
C28_Witness ==
    /\ fn.op = "GenerateCacheKey"
    /\ fn.args = <<"get", "https://api.refyne.uk/api/v1/usage", "2z">>
    /\ fn.out = "GET:https://api.refyne.uk/api/v1/usage:2z"
    /\ fn.out = CacheKeyOf["GET", "https://api.refyne.uk/api/v1/usage", "2z"]
    /\ fn.out # CacheKeyOf["POST", "https://api.refyne.uk/api/v1/usage", "2z"]

\* --------------------------------- the body and its context, checked ---
\* C31: while the pipeline reads the body of the response it was returned,
\* the timeout context of the attempt that produced the response has not been
\* cancelled, so no read of a body fails for a cancelled context.
C31_ContextLiveWhileReading ==
    /\ call[1].pc = "read" => ~AttemptContextDone(call[1])
    /\ call[1].pc = "done" =>
           call[1].result # Failure("wrapError", 0, "failed to read response")

\* The only attempt was answered 200, and the call returned the error of the
\* read of the body: the context had been cancelled when the read began.
C31_Failure ==
    /\ call[1].pc = "done"
    /\ call[1].outs = <<Response(200, "")>>
    /\ call[1].status = 200
    /\ call[1].result = Failure("wrapError", 0, "failed to read response")

\* ------------------------------------------ Set and no-store, checked ---
\* C40: a Set of an entry whose directives have noStore set changes
\* nothing: the map, the order and so the size are as before, no key is
\* evicted, and what a Get of the key returned before it returns after.
C40_NoStoreSetIsNoOp ==
    [][\A g \in Goroutines, key \in StoreKeys :
          ( /\ ops.pending[g].pc = "idle"
            /\ ops'.last.kind = "set"
            /\ ops'.last.key = key
            /\ StoreEntryAt["no-store", now].cacheControl.noStore
            /\ MCSet(g, key, "no-store") )
          => ( /\ cache'.store = cache.store
               /\ cache'.order = cache.order
               /\ Cardinality(DOMAIN cache'.store) = Cardinality(DOMAIN cache.store)
               /\ ops'.last.evicted = {}
               /\ CacheGet(cache', key, now) = CacheGet(cache, key, now) )]_vars

\* A cache of capacity two is full with a, then b; the last operation is a
\* Set of a that evicted nothing and left a the oldest, and a Get of a
\* returns the entry that was there, which has noStore unset.
C40_Witness ==
    /\ cfg.maxEntries = 2
    /\ ops.last = [kind |-> "set", key |-> KeyA, found |-> TRUE, evicted |-> {}]
    /\ cache.order = <<KeyA, KeyB>>
    /\ CacheGet(cache, KeyA, now).found
    /\ ~cache.store[KeyA].cacheControl.noStore

\* ------------------------------------------ Get's expiry test, checked ---

\* The entry of the key is at or past its expiry at time t, with no
\* stale-while-revalidate allowance left.
ExpiredBy(mc, key, t) ==
    /\ key \in DOMAIN mc.store
    /\ ~Less64(Int64(t), mc.store[key].expiresAt)
    /\ LET swr == mc.store[key].cacheControl.staleWhileRevalidate
       IN  ~(swr.set /\ Less64(Int64(t), Add64(mc.store[key].expiresAt, swr.val)))

\* C34: a Get returns an entry as fresh only while its expiresAt is strictly
\* later than the current second; a Get at or after expiresAt, with no
\* stale-while-revalidate allowance left, goes on to purge the key instead
\* of reporting it found.
C34_FreshOnlyBeforeExpiry ==
    [][\A g \in Goroutines, key \in StoreKeys :
          ( /\ Read(g, key)
            /\ ExpiredBy(cache, key, now)
            /\ MCGetTest(g) )
          => ( /\ ops'.pending[g] = [IdleOp EXCEPT !.pc = "purge", !.key = key]
               /\ ops'.last = ops.last )]_vars

\* The entry of key a expires at the present second and has no
\* stale-while-revalidate allowance; the last operation is a Get that found
\* it, and a Get made now finds it too.
C34_Failure ==
    /\ ops.last = [kind |-> "get", key |-> KeyA, found |-> TRUE, evicted |-> {}]
    /\ KeyA \in DOMAIN cache.store
    /\ cache.store[KeyA].expiresAt = Int64(now)
    /\ ~cache.store[KeyA].cacheControl.staleWhileRevalidate.set
    /\ CacheGet(cache, KeyA, now).found

\* ------------------------------------------ Get's purge, checked ---
\* C30: a Get that found its key's entry expired removes that entry and no
\* other: an entry stored under the key by a Set that ran between the Get's
\* read and its Delete is left in the map.
C30_PurgeSparesNewer ==
    \A g \in Goroutines :
        (ops.pending[g].op = "get" /\ ops.pending[g].pc \in {"delorder", "unlock"}) =>
            ops.pending[g].removed \in {NoEntry, ops.pending[g].entry}

\* A Get read an expired entry, a Set then stored an entry that has not
\* expired under the same key, and the Get's Delete has taken that one out
\* of the map.
C30_Failure ==
    \E g \in Goroutines :
        /\ ops.pending[g].op = "get"
        /\ ops.pending[g].pc = "delorder"
        /\ ops.pending[g].entry.ok
        /\ Expired(ops.pending[g].entry, now)
        /\ ops.pending[g].removed.ok
        /\ ops.pending[g].removed # ops.pending[g].entry
        /\ ~Expired(ops.pending[g].removed, now)
        /\ ops.pending[g].key \notin DOMAIN cache.store

=============================================================================
